---- MODULE Spec2Model ----
(***************************************************************************)
(* A model of the parserc combinator framework: the span algebra           *)
(* (crates/span), the error kinds (crates/parserc/src/errors.rs), the      *)
(* TokenStream cursor (lang.rs), the lexer primitives (lexer.rs), the      *)
(* Parser adapters (parser.rs), the generic Syntax building blocks         *)
(* (syntax.rs) and the derived struct/enum parsers (crates/derive).        *)
(*                                                                         *)
(* A parser is a tree  [t, a, s, n]  (tag, sub-parsers, string arguments,  *)
(* numeric arguments); a parsed node has the same shape.  Parse(p, c)      *)
(* evaluates parser p on cursor c exactly as the code does and returns     *)
(*   tag  "ok" | "err" | "diverge" (the code's loop never returns)         *)
(*   out  the node returned on success                                     *)
(*   err  the error returned on failure                                    *)
(*   cur  the caller's cursor after the call                               *)
(*   log  the history of primitive calls and fatal escalations             *)
(***************************************************************************)
EXTENDS Integers, Sequences, FiniteSets, TLC

(***************************************************************************)
(* Bounds of the model.                                                    *)
(***************************************************************************)
MaxLen == 3
\* largest offset used for the bounds of the spans given to union
MaxIdx == 3
\* largest const parameter (N, LOWER, HIGHER) given to the Limits family
MaxLimit == 2
\* longest regex-pattern input
MaxPat == 5

\* the items (bytes) an input is made of
Items == {"(", ")", "a", ","}
\* every item that occurs in an input, escape sequences included
ItemSeq == <<" ", "(", ")", ",", "-", "1", "2", "[", "\\", "]", "^", "a", "x", "{", "}">>

Min(x, y) == IF x < y THEN x ELSE y
Max(x, y) == IF x > y THEN x ELSE y

(***************************************************************************)
(* Span algebra (crates/span/src/lib.rs).                                  *)
(***************************************************************************)
SpanNone == [k |-> "None", lo |-> 0, hi |-> 0]
SpanRange(lo, hi) == [k |-> "Range", lo |-> lo, hi |-> hi]
SpanRangeFrom(lo) == [k |-> "RangeFrom", lo |-> lo, hi |-> 0]
SpanRangeTo(hi) == [k |-> "RangeTo", lo |-> 0, hi |-> hi]
SpanRangeFull == [k |-> "RangeFull", lo |-> 0, hi |-> 0]

union(self, other) ==
    CASE self.k = "None" /\ other.k = "None" -> SpanNone
      [] self.k = "None" /\ other.k = "Range" -> other
      [] self.k = "None" /\ other.k = "RangeFrom" -> other
      [] self.k = "None" /\ other.k = "RangeTo" -> other
      [] self.k = "Range" /\ other.k = "None" -> self
      [] self.k = "Range" /\ other.k = "Range" ->
            SpanRange(Min(self.lo, other.lo), Max(self.hi, other.hi))
      [] self.k = "Range" /\ other.k = "RangeFrom" -> SpanRangeFrom(Min(self.lo, other.lo))
      [] self.k = "Range" /\ other.k = "RangeTo" -> SpanRangeTo(Max(self.hi, other.hi))
      [] self.k = "RangeFrom" /\ other.k = "None" -> self
      [] self.k = "RangeFrom" /\ other.k = "Range" ->
            IF self.lo > other.hi THEN SpanNone ELSE SpanRange(self.lo, other.hi)
      [] self.k = "RangeFrom" /\ other.k = "RangeFrom" -> SpanRangeFrom(Min(self.lo, other.lo))
      [] self.k = "RangeFrom" /\ other.k = "RangeTo" -> SpanRangeFull
      [] self.k = "RangeTo" /\ other.k = "None" -> self
      [] self.k = "RangeTo" /\ other.k = "Range" -> SpanRangeTo(Max(self.hi, other.hi))
      [] self.k = "RangeTo" /\ other.k = "RangeFrom" ->
            IF self.hi < other.lo THEN SpanNone ELSE SpanRangeFull
      [] self.k = "RangeTo" /\ other.k = "RangeTo" -> SpanRangeTo(Max(self.hi, other.hi))
      [] other.k = "RangeFull" -> SpanRangeFull
      [] self.k = "RangeFull" -> SpanRangeFull

\* between with <= for <: two spans that touch get an empty gap
between_touch(self, other) ==
    CASE self.k = "Range" /\ other.k = "Range" ->
            IF self.hi <= other.lo THEN SpanRange(self.hi, other.lo)
            ELSE IF other.hi <= self.lo THEN SpanRange(other.hi, self.lo)
            ELSE SpanNone
      [] self.k \in {"Range", "RangeTo"} /\ other.k = "RangeFrom" ->
            IF self.hi <= other.lo THEN SpanRange(self.hi, other.lo) ELSE SpanNone
      [] self.k \in {"Range", "RangeFrom"} /\ other.k = "RangeTo" ->
            IF other.hi <= self.lo THEN SpanRange(other.hi, self.lo) ELSE SpanNone
      [] self.k = "RangeFrom" /\ other.k = "Range" ->
            IF other.hi <= self.lo THEN SpanRange(other.hi, self.lo) ELSE SpanNone
      [] self.k = "RangeTo" /\ other.k = "Range" ->
            IF self.hi <= other.lo THEN SpanRange(self.hi, other.lo) ELSE SpanNone
      [] OTHER -> SpanNone

between(self, other) ==
    CASE self.k = "None" /\ other.k = "None" -> SpanNone
      [] self.k = "None" /\ other.k = "Range" -> SpanNone
      [] self.k = "None" /\ other.k = "RangeFrom" -> SpanNone
      [] self.k = "None" /\ other.k = "RangeTo" -> SpanNone
      [] self.k = "Range" /\ other.k = "None" -> SpanNone
      [] self.k = "Range" /\ other.k = "Range" ->
            IF self.hi < other.lo THEN SpanRange(self.hi, other.lo)
            ELSE IF other.hi < self.lo THEN SpanRange(other.hi, self.lo)
            ELSE SpanNone
      [] self.k = "Range" /\ other.k = "RangeFrom" ->
            IF self.hi < other.lo THEN SpanRange(self.hi, other.lo) ELSE SpanNone
      [] self.k = "Range" /\ other.k = "RangeTo" ->
            IF other.hi < self.lo THEN SpanRange(other.hi, self.lo) ELSE SpanNone
      [] self.k = "RangeFrom" /\ other.k = "None" -> SpanNone
      [] self.k = "RangeFrom" /\ other.k = "Range" ->
            IF other.hi < self.lo THEN SpanRange(other.hi, self.lo) ELSE SpanNone
      [] self.k = "RangeFrom" /\ other.k = "RangeFrom" -> SpanNone
      [] self.k = "RangeFrom" /\ other.k = "RangeTo" ->
            IF other.hi < self.lo THEN SpanRange(other.hi, self.lo) ELSE SpanNone
      [] self.k = "RangeTo" /\ other.k = "None" -> SpanNone
      [] self.k = "RangeTo" /\ other.k = "Range" ->
            IF self.hi < other.lo THEN SpanRange(self.hi, other.lo) ELSE SpanNone
      [] self.k = "RangeTo" /\ other.k = "RangeFrom" ->
            IF self.hi < other.lo THEN SpanRange(self.hi, other.lo) ELSE SpanNone
      [] self.k = "RangeTo" /\ other.k = "RangeTo" -> SpanNone
      [] other.k = "RangeFull" -> SpanNone
      [] self.k = "RangeFull" -> SpanNone

\* the spans given to union and between: all five kinds, bounds up to MaxIdx, lo <= hi
Spans ==
    {SpanNone, SpanRangeFull}
       \cup {SpanRange(r[1], r[2]) : r \in {x \in (0..MaxIdx) \X (0..MaxIdx) : x[1] <= x[2]}}
       \cup {SpanRangeFrom(lo) : lo \in 0..MaxIdx}
       \cup {SpanRangeTo(hi) : hi \in 0..MaxIdx}

(***************************************************************************)
(* Errors (crates/parserc/src/errors.rs).                                  *)
(***************************************************************************)
ControlFlow == {"Fatal", "Recovable", "Incomplete"}

\* Kind::<kind>(name, control_flow, span); name is "" for the unnamed kinds
Kind(kind, name, cf, span) == [kind |-> kind, name |-> name, cf |-> cf, span |-> span]

NoErr == Kind("", "", "", SpanNone)

control_flow(err) == err.cf

into_fatal(err) ==
    CASE err.kind = "Next" -> Kind("Next", "", "Fatal", err.span)
      [] err.kind = "NextIf" -> Kind("NextIf", "", "Fatal", err.span)
      [] err.kind = "Keyword" -> Kind("Keyword", "", "Fatal", err.span)
      [] err.kind = "Syntax" -> Kind("Syntax", err.name, "Fatal", err.span)
      [] err.kind = "Token" -> Kind("Token", err.name, "Fatal", err.span)
      [] err.kind = "LimitsTo" -> Kind("LimitsTo", "", "Fatal", err.span)
      [] err.kind = "Limits" -> Kind("Limits", "", "Fatal", err.span)
      [] err.kind = "LimitsFrom" -> Kind("LimitsFrom", "", "Fatal", err.span)

error_span(err) == err.span

(***************************************************************************)
(* The cursor (crates/parserc/src/lang.rs, TokenStream).                   *)
(***************************************************************************)
TokenStream(offset, value) == [offset |-> offset, value |-> value]

TokenStream_from(value) == TokenStream(0, value)

clone(c) == TokenStream(c.offset, c.value)

len(c) == Len(c.value)

start(c) == c.offset

end(c) == c.offset + Len(c.value)

\* Input::to_span: the span of the remaining input
to_span(c) == SpanRange(start(c), end(c))

\* split_to returns the prefix (out) and what self becomes (rest)
split_to(c, at) ==
    [out |-> TokenStream(c.offset, SubSeq(c.value, 1, at)),
     rest |-> TokenStream(c.offset + at, SubSeq(c.value, at + 1, Len(c.value)))]

\* split_off that returns the suffix and leaves self whole
split_off_keep(c, at) ==
    [out |-> TokenStream(c.offset + at, SubSeq(c.value, at + 1, Len(c.value))),
     rest |-> TokenStream(c.offset, c.value)]

\* split_off returns the suffix (out) and what self becomes (rest)
split_off(c, at) ==
    [out |-> TokenStream(c.offset + at, SubSeq(c.value, at + 1, Len(c.value))),
     rest |-> TokenStream(c.offset, SubSeq(c.value, 1, at))]

starts_with(c, needle) ==
    Len(needle) <= Len(c.value) /\ SubSeq(c.value, 1, Len(needle)) = needle

\* Find::find: the offset of the first occurrence of needle, -1 for None
find(c, needle) ==
    LET at == {i \in 0..(Len(c.value) - Len(needle)) :
                  SubSeq(c.value, i + 1, i + Len(needle)) = needle}
    IN IF at = {} THEN -1 ELSE CHOOSE i \in at : \A j \in at : i <= j

(***************************************************************************)
(* Parsers and nodes.                                                      *)
(***************************************************************************)
Node(t, a, s, n) == [t |-> t, a |-> a, s |-> s, n |-> n]

NoNode == Node("", <<>>, <<>>, <<>>)

\* the slice a primitive returns
Slice(c) == Node("input", <<>>, c.value, <<c.offset>>)

Some(v) == Node("Some", <<v>>, <<>>, <<>>)
None == Node("None", <<>>, <<>>, <<>>)

\* results
Ok(out, cur, log) == [tag |-> "ok", out |-> out, err |-> NoErr, cur |-> cur, log |-> log]
Err(err, cur, log) == [tag |-> "err", out |-> NoNode, err |-> err, cur |-> cur, log |-> log]
Diverge(cur, log) == [tag |-> "diverge", out |-> NoNode, err |-> NoErr, cur |-> cur, log |-> log]

\* history entries: a primitive was called at an offset; a failure was escalated
Call(p, c) == [ev |-> "call", p |-> p, at |-> c.offset, err |-> NoErr]
Raise(err, c) == [ev |-> "fatal", p |-> NoNode, at |-> c.offset, err |-> err]

(***************************************************************************)
(* Parser constructors.                                                    *)
(***************************************************************************)
\* lexer.rs
next(item) == Node("next", <<>>, <<item>>, <<>>)
next_if(accepted) == Node("next_if", <<>>, accepted, <<>>)
keyword(kw) == Node("keyword", <<>>, kw, <<>>)
take_until(kw) == Node("take_until", <<>>, kw, <<>>)
take_while(accepted) == Node("take_while", <<>>, accepted, <<>>)
\* the closure  move |c| !cond(c) : a predicate is the sequence of the items
\* it returns true for
Not(cond) == SelectSeq(ItemSeq, LAMBDA x : \A i \in 1..Len(cond) : cond[i] # x)
take_till(cond) == take_while(Not(cond))
\* parser.rs
ok(p) == Node("ok", <<p>>, <<>>, <<>>)
map(p, f) == Node("map", <<p>>, <<f>>, <<>>)
fatal(p) == Node("fatal", <<p>>, <<>>, <<>>)
boxed(p) == map(p, "Box")
or(p, q) == Node("or", <<p, q>>, <<>>, <<>>)
\* syntax.rs
into_parser(T) == Node("SyntaxParser", <<T>>, <<>>, <<>>)
PhantomData == Node("PhantomData", <<>>, <<>>, <<>>)
Option(T) == Node("Option", <<T>>, <<>>, <<>>)
Box(T) == Node("Box", <<T>>, <<>>, <<>>)
Vec(T) == Node("Vec", <<T>>, <<>>, <<>>)
Delimiter(Start, End, Body) == Node("Delimiter", <<Start, End, Body>>, <<>>, <<>>)
LimitsTo(T, N) == Node("LimitsTo", <<T>>, <<>>, <<N>>)
Limits(T, LOWER, HIGHER) == Node("Limits", <<T>>, <<>>, <<LOWER, HIGHER>>)
LimitsFrom(T, LOWER) == Node("LimitsFrom", <<T>>, <<>>, <<LOWER>>)
Punctuated(T, P) == Node("Punctuated", <<T, P>>, <<>>, <<>>)
SyntaxOr(F, S) == Node("Or", <<F, S>>, <<>>, <<>>)
\* a user-written Syntax type that consumes nothing and reports a fixed span
Mock(span) == Node("Mock", <<>>, <<span.k>>, <<span.lo, span.hi>>)
\* crates/derive: keyword!(Name, "kw"), token!(Name, |c| ...), #[derive(Syntax)]
Keyword(name, kw) == Node("Keyword", <<>>, <<name>> \o kw, <<>>)
Token(name, accepted) == Node("Token", <<>>, <<name>> \o accepted, <<>>)
Struct(name, fields) == Node("Struct", fields, <<name>>, <<>>)
Variant(name, fields) == Node("Variant", fields, <<name>>, <<>>)
Enum(name, variants) == Node("Enum", variants, <<name>>, <<>>)
\* the tuple type (T0, T1, ...)
Tuple(types) == Node("Tuple", types, <<>>, <<>>)
\* parserc::take_while_range(lo..hi, cond) and take_while_range_from(lo, cond)
take_while_range(lo, hi, cond) == Node("take_while_range", <<>>, cond, <<lo, hi>>)
take_while_range_from(lo, cond) == Node("take_while_range_from", <<>>, cond, <<lo>>)
\* crates/pattex: the character classes, as predicates
is_ascii_digit ==
    SelectSeq(ItemSeq, LAMBDA c : c \in {"0", "1", "2", "3", "4", "5", "6", "7", "8", "9"})
is_ascii_hexdigit ==
    SelectSeq(ItemSeq, LAMBDA c : c \in {"0", "1", "2", "3", "4", "5", "6", "7", "8", "9",
                                          "a", "b", "c", "d", "e", "f",
                                          "A", "B", "C", "D", "E", "F"})
is_ascii_whitespace == SelectSeq(ItemSeq, LAMBDA c : c \in {" ", "\t", "\n", "\f", "\r"})
\* crates/pattex/src/pattern.rs
pattern_S == Node("S", <<>>, <<>>, <<>>)
Digits == Node("Digits", <<>>, <<>>, <<>>)
Escape == Node("Escape", <<>>, <<>>, <<>>)
\* crates/pattex/src/pattern/escape.rs
escape_Escape == Node("escape_Escape", <<>>, <<>>, <<>>)
\* crates/pattex/src/pattern/digits.rs, repeat.rs, class.rs
digits_Digits == Node("digits_Digits", <<>>, <<>>, <<>>)
Repeat == Node("Repeat", <<>>, <<>>, <<>>)
Chars == Node("Chars", <<>>, <<>>, <<>>)
CharClass == Node("CharClass", <<>>, <<>>, <<>>)

(***************************************************************************)
(* Lexer primitives (crates/parserc/src/lexer.rs).                         *)
(***************************************************************************)
InSeq(x, s) == \E i \in 1..Len(s) : s[i] = x

\* next that reports the end of the input as a mismatch
next_parse_eof(p, c) ==
    IF len(c) > 0 /\ c.value[1] = p.s[1]
    THEN LET sp == split_to(c, 1) IN Ok(Slice(sp.out), sp.rest, <<Call(p, c)>>)
    ELSE Err(Kind("Next", "", "Recovable", to_span(c)), c, <<Call(p, c)>>)

next_parse(p, c) ==
    IF len(c) > 0
    THEN IF c.value[1] = p.s[1]
         THEN LET sp == split_to(c, 1) IN Ok(Slice(sp.out), sp.rest, <<Call(p, c)>>)
         ELSE Err(Kind("Next", "", "Recovable", to_span(c)), c, <<Call(p, c)>>)
    ELSE Err(Kind("Next", "", "Incomplete", to_span(c)), c, <<Call(p, c)>>)

next_if_parse(p, c) ==
    IF len(c) > 0
    THEN IF InSeq(c.value[1], p.s)
         THEN LET sp == split_to(c, 1) IN Ok(Slice(sp.out), sp.rest, <<Call(p, c)>>)
         ELSE Err(Kind("NextIf", "", "Recovable", to_span(c)), c, <<Call(p, c)>>)
    ELSE Err(Kind("NextIf", "", "Recovable", to_span(c)), c, <<Call(p, c)>>)

\* keyword that asks for more input when the input is a proper prefix of
\* the keyword
keyword_parse_prefix(p, c) ==
    IF starts_with(c, p.s)
    THEN LET sp == split_to(c, Len(p.s)) IN Ok(Slice(sp.out), sp.rest, <<Call(p, c)>>)
    ELSE IF len(c) < Len(p.s) /\ SubSeq(p.s, 1, len(c)) = c.value
         THEN Err(Kind("Keyword", "", "Incomplete", to_span(c)), c, <<Call(p, c)>>)
         ELSE Err(Kind("Keyword", "", "Recovable", to_span(c)), c, <<Call(p, c)>>)

keyword_parse(p, c) ==
    IF starts_with(c, p.s)
    THEN LET sp == split_to(c, Len(p.s)) IN Ok(Slice(sp.out), sp.rest, <<Call(p, c)>>)
    ELSE Err(Kind("Keyword", "", "Recovable", to_span(c)), c, <<Call(p, c)>>)

take_until_parse(p, c) ==
    LET offset == find(c, p.s)
    IN IF offset # -1
       THEN LET sp == split_to(c, offset) IN Ok(Slice(sp.out), sp.rest, <<Call(p, c)>>)
       ELSE LET sp == split_to(c, 0) IN Ok(Slice(sp.out), sp.rest, <<Call(p, c)>>)

RECURSIVE take_while_offset(_, _, _)
\* the loop of take_while that breaks after the first accepted item
take_while_offset_one(value, accepted, offset) ==
    IF offset < Len(value) /\ offset < 1 /\ InSeq(value[offset + 1], accepted)
    THEN take_while_offset(value, accepted, offset + 1)
    ELSE offset

take_while_offset(value, accepted, offset) ==
    IF offset < Len(value) /\ InSeq(value[offset + 1], accepted)
    THEN take_while_offset(value, accepted, offset + 1)
    ELSE offset

take_while_parse(p, c) ==
    LET sp == split_to(c, take_while_offset(c.value, p.s, 0))
    IN Ok(Slice(sp.out), sp.rest, <<Call(p, c)>>)

(***************************************************************************)
(* Parser adapters (crates/parserc/src/parser.rs).                         *)
(***************************************************************************)
RECURSIVE Parse(_, _)

\* IsOk::parse run on the caller's cursor instead of a clone
IsOk_parse_noclone(p, c) ==
    LET r == Parse(p.a[1], c)
    IN CASE r.tag = "ok" -> Ok(Some(r.out), r.cur, r.log)
         [] r.tag = "diverge" -> Diverge(c, r.log)
         [] r.tag = "err" /\ control_flow(r.err) = "Fatal" -> Err(r.err, r.cur, r.log)
         [] OTHER -> Ok(None, r.cur, r.log)

\* IsOk::parse that turns every error, Fatal included, into None
IsOk_parse_swallow(p, c) ==
    LET r == Parse(p.a[1], clone(c))
    IN CASE r.tag = "ok" -> Ok(Some(r.out), r.cur, r.log)
         [] r.tag = "diverge" -> Diverge(c, r.log)
         [] OTHER -> Ok(None, c, r.log)

\* IsOk::parse
IsOk_parse(p, c) ==
    LET r == Parse(p.a[1], clone(c))
    IN CASE r.tag = "ok" -> Ok(Some(r.out), r.cur, r.log)
         [] r.tag = "diverge" -> Diverge(c, r.log)
         [] r.tag = "err" /\ control_flow(r.err) = "Fatal" -> Err(r.err, c, r.log)
         [] OTHER -> Ok(None, c, r.log)

\* Map::parse; the mapping function f is a constructor named p.s[1]
Map_parse(p, c) ==
    LET r == Parse(p.a[1], c)
    IN IF r.tag = "ok"
       THEN Ok(Node(p.s[1], <<r.out>>, <<>>, <<>>), r.cur, r.log)
       ELSE r

\* Fatal::parse that escalates Recovable only and lets Incomplete through
Fatal_parse_recovable(p, c) ==
    LET r == Parse(p.a[1], c)
    IN IF r.tag = "err" /\ control_flow(r.err) = "Recovable"
       THEN Err(into_fatal(r.err), r.cur, r.log \o <<Raise(into_fatal(r.err), c)>>)
       ELSE r

\* Fatal::parse
Fatal_parse(p, c) ==
    LET r == Parse(p.a[1], c)
    IN IF r.tag = "err"
       THEN Err(into_fatal(r.err), r.cur, r.log \o <<Raise(into_fatal(r.err), c)>>)
       ELSE r

\* Or::parse that retries the second parser where the first one stopped
Or_parse_consumed(p, c) ==
    LET r1 == Parse(p.a[1], c)
    IN CASE r1.tag = "ok" -> r1
         [] r1.tag = "diverge" -> Diverge(c, r1.log)
         [] control_flow(r1.err) = "Fatal" -> Err(r1.err, c, r1.log)
         [] OTHER ->
              LET r2 == Parse(p.a[2], r1.cur)
              IN [r2 EXCEPT !.log = r1.log \o r2.log]

\* Or::parse that reports the first parser's error when both fail
Or_parse_first(p, c) ==
    LET r1 == Parse(p.a[1], clone(c))
    IN CASE r1.tag = "ok" -> r1
         [] r1.tag = "diverge" -> Diverge(c, r1.log)
         [] control_flow(r1.err) = "Fatal" -> Err(r1.err, c, r1.log)
         [] OTHER ->
              LET r2 == Parse(p.a[2], c)
              IN IF r2.tag = "err" /\ control_flow(r2.err) # "Fatal"
                 THEN Err(r1.err, c, r1.log \o r2.log)
                 ELSE [r2 EXCEPT !.log = r1.log \o r2.log]

\* Or::parse
Or_parse(p, c) ==
    LET r1 == Parse(ok(p.a[1]), clone(c))
    IN CASE r1.tag = "err" -> Err(r1.err, c, r1.log)
         [] r1.tag = "diverge" -> Diverge(c, r1.log)
         [] r1.out.t = "Some" -> Ok(r1.out.a[1], r1.cur, r1.log)
         [] OTHER ->
              LET r2 == Parse(p.a[2], c)
              IN [r2 EXCEPT !.log = r1.log \o r2.log]

(***************************************************************************)
(* Spans of parsed nodes (the to_span methods of syntax.rs and of the      *)
(* derived types).                                                         *)
(***************************************************************************)
RECURSIVE node_to_span(_)
RECURSIVE union_all(_, _)

\* lhs = lhs.union(&field.to_span()) over the fields, left to right
union_all(lhs, nodes) ==
    IF nodes = <<>> THEN lhs
    ELSE union_all(union(lhs, node_to_span(Head(nodes))), Tail(nodes))

node_to_span(v) ==
    CASE v.t = "input" -> to_span(TokenStream(v.n[1], v.s))
      [] v.t = "PhantomData" -> SpanNone
      [] v.t = "None" -> SpanNone
      [] v.t \in {"Some", "Box", "LimitsTo", "Limits", "LimitsFrom", "First", "Second",
                  "Token", "Keyword", "Digits", "escape_Escape", "Chars"}
            -> node_to_span(v.a[1])
      [] v.t = "Repeat" -> node_to_span(v.a[Len(v.a)])
      [] v.t = "Vec" ->
            IF v.a = <<>> THEN union(SpanNone, SpanNone)
            ELSE union(node_to_span(v.a[1]), node_to_span(v.a[Len(v.a)]))
      [] v.t = "Delimiter" -> union(node_to_span(v.a[1]), node_to_span(v.a[2]))
      [] v.t = "Punctuated" -> union(node_to_span(v.a[1]), node_to_span(v.a[2]))
      [] v.t \in {"Struct", "Variant", "Tuple"} -> union_all(SpanNone, v.a)
      [] v.t = "Mock" -> [k |-> v.s[1], lo |-> v.n[1], hi |-> v.n[2]]
      [] OTHER -> SpanNone

(***************************************************************************)
(* Generic Syntax building blocks (crates/parserc/src/syntax.rs).          *)
(***************************************************************************)
\* SyntaxParser::parse
SyntaxParser_parse(p, c) == Parse(p.a[1], c)

PhantomData_parse(p, c) == Ok(Node("PhantomData", <<>>, <<>>, <<>>), c, <<>>)

Option_parse(p, c) == Parse(ok(into_parser(p.a[1])), c)

Box_parse(p, c) == Parse(boxed(into_parser(p.a[1])), c)

\* the loop of Vec::parse.  An iteration that returns Some without moving
\* the cursor is followed by an identical iteration: the loop never returns.
RECURSIVE Vec_loop(_, _, _, _)
\* the loop of Vec::parse with the element parsed on the caller's cursor
\* instead of through ok()
Vec_loop_noclone(T, c, elms, log) ==
    LET r == Parse(into_parser(T), c)
    IN CASE r.tag = "diverge" -> Diverge(r.cur, log \o r.log)
         [] r.tag = "err" /\ control_flow(r.err) = "Fatal" -> Err(r.err, r.cur, log \o r.log)
         [] r.tag = "err" -> Ok(Node("Vec", elms, <<>>, <<>>), r.cur, log \o r.log)
         [] r.cur = c -> Diverge(r.cur, log \o r.log)
         [] OTHER -> Vec_loop(T, r.cur, Append(elms, r.out), log \o r.log)

Vec_loop(T, c, elms, log) ==
    LET r == Parse(ok(into_parser(T)), c)
    IN CASE r.tag = "err" -> Err(r.err, r.cur, log \o r.log)
         [] r.tag = "diverge" -> Diverge(r.cur, log \o r.log)
         [] r.out.t = "None" -> Ok(Node("Vec", elms, <<>>, <<>>), r.cur, log \o r.log)
         [] r.cur = c -> Diverge(r.cur, log \o r.log)
         [] OTHER -> Vec_loop(T, r.cur, Append(elms, r.out.a[1]), log \o r.log)

Vec_parse(p, c) == Vec_loop(p.a[1], c, <<>>, <<>>)

\* Delimiter::parse that forgets fatal() on the end token
Delimiter_parse_open(p, c) ==
    LET rs == Parse(p.a[1], c)
    IN IF rs.tag # "ok" THEN rs
       ELSE LET rb == Parse(fatal(into_parser(p.a[3])), rs.cur)
            IN IF rb.tag # "ok" THEN [rb EXCEPT !.log = rs.log \o rb.log]
               ELSE LET re == Parse(into_parser(p.a[2]), rb.cur)
                    IN IF re.tag # "ok"
                       THEN [re EXCEPT !.log = rs.log \o rb.log \o re.log]
                       ELSE Ok(Node("Delimiter", <<rs.out, re.out, rb.out>>, <<>>, <<>>),
                               re.cur, rs.log \o rb.log \o re.log)

Delimiter_parse(p, c) ==
    LET rs == Parse(p.a[1], c)
    IN IF rs.tag # "ok" THEN rs
       ELSE LET rb == Parse(fatal(into_parser(p.a[3])), rs.cur)
            IN IF rb.tag # "ok" THEN [rb EXCEPT !.log = rs.log \o rb.log]
               ELSE LET re == Parse(fatal(into_parser(p.a[2])), rb.cur)
                    IN IF re.tag # "ok"
                       THEN [re EXCEPT !.log = rs.log \o rb.log \o re.log]
                       ELSE Ok(Node("Delimiter", <<rs.out, re.out, rb.out>>, <<>>, <<>>),
                               re.cur, rs.log \o rb.log \o re.log)

\* the match on t.to_span() shared by the Limits family: the length, or -1
\* for the arm that returns the error
span_len(span) ==
    CASE span.k = "None" -> 0
      [] span.k = "Range" -> IF span.hi > span.lo THEN span.hi - span.lo ELSE 0
      [] span.k = "RangeTo" -> span.hi
      [] OTHER -> -1

LimitsTo_parse(p, c) ==
    LET start_ == to_span(c)
        r == Parse(p.a[1], c)
        length == span_len(node_to_span(r.out))
    IN CASE r.tag # "ok" -> r
         [] length = -1 -> Err(Kind("LimitsTo", "", "Recovable", start_), r.cur, r.log)
         [] length > p.n[1] -> Err(Kind("LimitsTo", "", "Recovable", start_), r.cur, r.log)
         [] OTHER -> Ok(Node("LimitsTo", <<r.out>>, <<>>, <<>>), r.cur, r.log)

\* Limits::parse with an inclusive upper bound
Limits_parse_inclusive(p, c) ==
    LET start_ == to_span(c)
        r == Parse(p.a[1], c)
        length == span_len(node_to_span(r.out))
    IN CASE r.tag # "ok" -> r
         [] length = -1 -> Err(Kind("Limits", "", "Recovable", start_), r.cur, r.log)
         [] length < p.n[1] \/ length > p.n[2] ->
              Err(Kind("Limits", "", "Recovable", start_), r.cur, r.log)
         [] OTHER -> Ok(Node("Limits", <<r.out>>, <<>>, <<>>), r.cur, r.log)

Limits_parse(p, c) ==
    LET start_ == to_span(c)
        r == Parse(p.a[1], c)
        length == span_len(node_to_span(r.out))
    IN CASE r.tag # "ok" -> r
         [] length = -1 -> Err(Kind("Limits", "", "Recovable", start_), r.cur, r.log)
         [] length < p.n[1] \/ ~(length < p.n[2]) ->
              Err(Kind("Limits", "", "Recovable", start_), r.cur, r.log)
         [] OTHER -> Ok(Node("Limits", <<r.out>>, <<>>, <<>>), r.cur, r.log)

LimitsFrom_parse(p, c) ==
    LET start_ == to_span(c)
        r == Parse(p.a[1], c)
        length == span_len(node_to_span(r.out))
    IN CASE r.tag # "ok" -> r
         [] length = -1 -> Err(Kind("Limits", "", "Recovable", start_), r.cur, r.log)
         [] length < p.n[1] -> Err(Kind("Limits", "", "Recovable", start_), r.cur, r.log)
         [] OTHER -> Ok(Node("LimitsFrom", <<r.out>>, <<>>, <<>>), r.cur, r.log)

\* the loop of Punctuated::parse; as in Vec_loop, a (T, P) pair parsed
\* without moving the cursor repeats for ever
RECURSIVE Punctuated_loop(_, _, _, _, _)
\* the loop of Punctuated::parse that drops a trailing T instead of keeping
\* it as the tail
Punctuated_loop_notail(T, P, c, pairs, log) ==
    LET rt == Parse(ok(into_parser(T)), c)
    IN CASE rt.tag = "err" -> Err(rt.err, rt.cur, log \o rt.log)
         [] rt.tag = "diverge" -> Diverge(rt.cur, log \o rt.log)
         [] rt.out.t = "None" ->
              Ok(Node("Punctuated", <<Node("Vec", pairs, <<>>, <<>>), None>>, <<>>, <<>>),
                 rt.cur, log \o rt.log)
         [] OTHER ->
              LET rp == Parse(ok(into_parser(P)), rt.cur)
                  lg == log \o rt.log \o rp.log
              IN CASE rp.tag = "err" -> Err(rp.err, rp.cur, lg)
                   [] rp.tag = "diverge" -> Diverge(rp.cur, lg)
                   [] rp.out.t = "None" ->
                        Ok(Node("Punctuated", <<Node("Vec", pairs, <<>>, <<>>), None>>,
                                <<>>, <<>>),
                           rp.cur, lg)
                   [] rp.cur = c -> Diverge(rp.cur, lg)
                   [] OTHER ->
                        Punctuated_loop(T, P, rp.cur,
                            Append(pairs, Node("Tuple", <<rt.out.a[1], rp.out.a[1]>>, <<>>, <<>>)),
                            lg)

Punctuated_loop(T, P, c, pairs, log) ==
    LET rt == Parse(ok(into_parser(T)), c)
    IN CASE rt.tag = "err" -> Err(rt.err, rt.cur, log \o rt.log)
         [] rt.tag = "diverge" -> Diverge(rt.cur, log \o rt.log)
         [] rt.out.t = "None" ->
              Ok(Node("Punctuated", <<Node("Vec", pairs, <<>>, <<>>), None>>, <<>>, <<>>),
                 rt.cur, log \o rt.log)
         [] OTHER ->
              LET rp == Parse(ok(into_parser(P)), rt.cur)
                  lg == log \o rt.log \o rp.log
              IN CASE rp.tag = "err" -> Err(rp.err, rp.cur, lg)
                   [] rp.tag = "diverge" -> Diverge(rp.cur, lg)
                   [] rp.out.t = "None" ->
                        Ok(Node("Punctuated",
                                <<Node("Vec", pairs, <<>>, <<>>),
                                  Some(Node("Box", <<rt.out.a[1]>>, <<>>, <<>>))>>,
                                <<>>, <<>>),
                           rp.cur, lg)
                   [] rp.cur = c -> Diverge(rp.cur, lg)
                   [] OTHER ->
                        Punctuated_loop(T, P, rp.cur,
                            Append(pairs, Node("Tuple", <<rt.out.a[1], rp.out.a[1]>>, <<>>, <<>>)),
                            lg)

Punctuated_parse(p, c) == Punctuated_loop(p.a[1], p.a[2], c, <<>>, <<>>)

\* Or::parse of syntax.rs with S parsed where F stopped
SyntaxOr_parse_consumed(p, c) ==
    LET r1 == Parse(into_parser(p.a[1]), c)
    IN CASE r1.tag = "diverge" -> r1
         [] r1.tag = "ok" -> Ok(Node("First", <<r1.out>>, <<>>, <<>>), r1.cur, r1.log)
         [] control_flow(r1.err) = "Fatal" -> r1
         [] OTHER ->
              LET r2 == Parse(p.a[2], r1.cur)
              IN IF r2.tag = "ok"
                 THEN Ok(Node("Second", <<r2.out>>, <<>>, <<>>), r2.cur, r1.log \o r2.log)
                 ELSE [r2 EXCEPT !.log = r1.log \o r2.log]

\* Or::parse of syntax.rs
SyntaxOr_parse(p, c) ==
    LET r1 == Parse(ok(into_parser(p.a[1])), c)
    IN CASE r1.tag # "ok" -> r1
         [] r1.out.t = "Some" -> Ok(Node("First", <<r1.out.a[1]>>, <<>>, <<>>), r1.cur, r1.log)
         [] OTHER ->
              LET r2 == Parse(p.a[2], r1.cur)
              IN IF r2.tag = "ok"
                 THEN Ok(Node("Second", <<r2.out>>, <<>>, <<>>), r2.cur, r1.log \o r2.log)
                 ELSE [r2 EXCEPT !.log = r1.log \o r2.log]

\* a user Syntax type in the shape of syntax.rs tests::Mock : Ok without
\* reading the input; its to_span is the span it was declared with
Mock_parse(p, c) == Ok(Node("Mock", <<>>, p.s, p.n), c, <<Call(p, c)>>)

(***************************************************************************)
(* Derived parsers (crates/derive).                                        *)
(***************************************************************************)
\* keyword!(Name, "kw"): parserc::keyword(kw).parse(input).map(Self)
Keyword_parse(p, c) ==
    LET r == Parse(keyword(Tail(p.s)), c)
    IN IF r.tag = "ok" THEN Ok(Node("Keyword", <<r.out>>, <<p.s[1]>>, <<>>), r.cur, r.log)
       ELSE r

\* token!(Name, |c| ...): parserc::take_while(f).parse(input).map(Self)
Token_parse(p, c) ==
    LET r == Parse(take_while(Tail(p.s)), c)
    IN IF r.tag = "ok" THEN Ok(Node("Token", <<r.out>>, <<p.s[1]>>, <<>>), r.cur, r.log)
       ELSE r

\* the fields  input.parse()?, input.parse()?, ...  of a struct or a variant
RECURSIVE parse_fields(_, _, _, _)
\* the fields each parsed from the cursor the struct was called with
parse_fields_restart(fields, c, outs, log) ==
    IF fields = <<>> THEN Ok(Node("Fields", outs, <<>>, <<>>), c, log)
    ELSE LET r == Parse(Head(fields), c)
         IN IF r.tag # "ok" THEN [r EXCEPT !.log = log \o r.log]
            ELSE parse_fields(Tail(fields), c, Append(outs, r.out), log \o r.log)

parse_fields(fields, c, outs, log) ==
    IF fields = <<>> THEN Ok(Node("Fields", outs, <<>>, <<>>), c, log)
    ELSE LET r == Parse(Head(fields), c)
         IN IF r.tag # "ok" THEN [r EXCEPT !.log = log \o r.log]
            ELSE parse_fields(Tail(fields), r.cur, Append(outs, r.out), log \o r.log)

\* derive_syntax_for_struct
Struct_parse(p, c) ==
    LET r == parse_fields(p.a, c, <<>>, <<>>)
    IN IF r.tag = "ok" THEN Ok(Node("Struct", r.out.a, p.s, <<>>), r.cur, r.log)
       ELSE r

\* the closure  |input| Ok(Ident::Variant(input.parse()?, ...))  of one variant
Variant_parse(p, c) ==
    LET r == parse_fields(p.a, c, <<>>, <<>>)
    IN IF r.tag = "ok" THEN Ok(Node("Variant", r.out.a, p.s, <<>>), r.cur, r.log)
       ELSE r

(***************************************************************************)
(* Tuples (crates/derive/src/tuple.rs).                                    *)
(***************************************************************************)
\* the arities derive_tuple_syntax!(len) emits an impl for, in the order of
\* its loop  for i in 2..len ; none when the argument is rejected
derive_tuple_syntax(length) ==
    IF length < 3 THEN <<>> ELSE [k \in 1..(length - 2) |-> k + 1]

\* the generated parse:  let (Tj, input) = Tj::parse(input)?;  for each j,
\* then Ok(((T0, T1, ...), input))
RECURSIVE Tuple_elements(_, _, _, _)
Tuple_elements(types, c, outs, log) ==
    IF types = <<>> THEN Ok(Node("Tuple", outs, <<>>, <<>>), c, log)
    ELSE LET r == Parse(Head(types), c)
         IN IF r.tag # "ok" THEN [r EXCEPT !.log = log \o r.log]
            ELSE Tuple_elements(Tail(types), r.cur, Append(outs, r.out), log \o r.log)

Tuple_parse(p, c) == Tuple_elements(p.a, c, <<>>, <<>>)

\* derive_syntax_for_enum: one ok()-wrapped attempt per variant, then the error
RECURSIVE Enum_variants(_, _, _, _)
\* the generated parse with its attempts emitted in reverse declaration order
Enum_variants_reversed(name, variants, c, log) ==
    IF variants = <<>>
    THEN Err(Kind("Syntax", name, "Recovable", to_span(c)), c, log)
    ELSE LET r == Parse(ok(variants[Len(variants)]), c)
         IN CASE r.tag # "ok" -> [r EXCEPT !.log = log \o r.log]
              [] r.out.t = "Some" -> Ok(r.out.a[1], r.cur, log \o r.log)
              [] OTHER -> Enum_variants(name, SubSeq(variants, 1, Len(variants) - 1),
                                        r.cur, log \o r.log)

\* the body derive_syntax_for_enum generates: one attempt per variant
Enum_variants(name, variants, c, log) ==
    IF variants = <<>>
    THEN Err(Kind("Syntax", name, "Recovable", to_span(c)), c, log)
    ELSE LET r == Parse(ok(Head(variants)), c)
         IN CASE r.tag # "ok" -> [r EXCEPT !.log = log \o r.log]
              [] r.out.t = "Some" -> Ok(r.out.a[1], r.cur, log \o r.log)
              [] OTHER -> Enum_variants(name, Tail(variants), r.cur, log \o r.log)

Enum_parse(p, c) == Enum_variants(p.s[1], p.a, c, <<>>)

(***************************************************************************)
(* The regular-expression grammar built on the framework (crates/pattex).  *)
(***************************************************************************)
\* take_while_range: the leading items cond accepts, at most hi of them; an
\* error spanning the accepted items when there are fewer than lo
take_while_range_parse(p, c) ==
    LET n == Min(take_while_offset(c.value, p.s, 0), p.n[2])
    IN IF n < p.n[1]
       THEN Err(Kind("TakeWhileRange", "", "Recovable", SpanRange(start(c), start(c) + n)),
                c, <<Call(p, c)>>)
       ELSE LET sp == split_to(c, n) IN Ok(Slice(sp.out), sp.rest, <<Call(p, c)>>)

\* take_while_range_from: every leading item cond accepts; an error spanning
\* them when there are fewer than lo
take_while_range_from_parse(p, c) ==
    LET n == take_while_offset(c.value, p.s, 0)
    IN IF n < p.n[1]
       THEN Err(Kind("TakeWhileRange", "", "Recovable", SpanRange(start(c), start(c) + n)),
                c, <<Call(p, c)>>)
       ELSE LET sp == split_to(c, n) IN Ok(Slice(sp.out), sp.rest, <<Call(p, c)>>)

\* Input::to_span_at(n): the span of the next n items
to_span_at(c, n) == SpanRange(start(c), start(c) + n)

\* PatternKind::map and PatternKind::map_fatal
PatternKind_map(kind, err) == Kind("Pattern", kind, control_flow(err), error_span(err))
PatternKind_map_fatal(kind, err) == Kind("Pattern", kind, "Fatal", error_span(err))
\* CompileError::map and CompileError::map_fatal
CompileError_map(kind, err) == Kind("Compile", kind, control_flow(err), error_span(err))
CompileError_map_fatal(kind, err) == Kind("Compile", kind, "Fatal", error_span(err))

\* S::parse of pattern.rs
pattern_S_parse(p, c) ==
    LET r == Parse(take_while(is_ascii_whitespace), c)
    IN IF r.tag = "ok" THEN Ok(Node("S", <<r.out>>, <<>>, <<>>), r.cur, r.log) ELSE r

\* Digits::parse of pattern.rs without the check  content.is_empty()
Digits_parse_empty(p, c) ==
    LET r == Parse(take_while(is_ascii_digit), c)
    IN IF r.tag # "ok" THEN r
       ELSE Ok(Node("Digits", <<r.out>>, <<>>, <<>>), r.cur, r.log)

\* Digits::parse of pattern.rs
Digits_parse(p, c) ==
    LET r == Parse(take_while(is_ascii_digit), c)
    IN CASE r.tag # "ok" -> r
         [] r.out.s = <<>> ->
              Err(Kind("Pattern", "Digits", "Recovable", SpanRange(start(r.cur), start(r.cur))),
                  r.cur, r.log)
         [] OTHER -> Ok(Node("Digits", <<r.out>>, <<>>, <<>>), r.cur, r.log)

\* the escapes of pattern.rs that are the two items "\\" and a letter
SimpleEscapes == {"b", "B", "d", "D", "f", "r", "n", "s", "S", "t", ".", "v", "w", "W"}

\* Escape::parse of pattern.rs, the arm Some('x')
Escape_parse_x(prefix, input1, log) ==
    LET input2 == split_to(input1, 1).rest
        nn == Parse(take_while_range(2, 2, is_ascii_hexdigit), input2)
        sp == split_off(prefix, 2)
    IN IF nn.tag # "ok"
       THEN Err(PatternKind_map_fatal("HexEscape", nn.err), nn.cur, log \o nn.log)
       ELSE Ok(Node("Escape", <<Slice(sp.rest), nn.out>>, <<"X">>, <<>>),
               sp.out, log \o nn.log)

\* Escape::parse of pattern.rs, the arm Some('u')
Escape_parse_u(prefix, input1, log) ==
    LET input2 == split_to(input1, 1).rest
        ds == Parse(next("{"), input2)
        s1 == Parse(pattern_S, ds.cur)
        num == Parse(take_while(is_ascii_hexdigit), s1.cur)
        s2 == Parse(pattern_S, num.cur)
        de == Parse(next("}"), s2.cur)
    IN CASE ds.tag # "ok" ->
              Err(PatternKind_map("UnicodeEscape", ds.err), ds.cur, log \o ds.log)
         [] num.out.s = <<>> ->
              Err(Kind("Pattern", "UnicodeEscape", "Fatal",
                       SpanRange(start(prefix), num.out.n[1] + Len(num.out.s))),
                  num.cur, log \o ds.log \o s1.log \o num.log)
         [] de.tag # "ok" ->
              Err(PatternKind_map("UnicodeEscape", de.err), de.cur,
                  log \o ds.log \o s1.log \o num.log \o s2.log \o de.log)
         [] OTHER ->
              Ok(Node("Escape", <<Slice(split_to(prefix, 2).out), ds.out, num.out, de.out>>,
                      <<"Unicode">>, <<>>),
                 de.cur, log \o ds.log \o s1.log \o num.log \o s2.log \o de.log)

\* Escape::parse of pattern.rs, the arm _ : a back reference
Escape_parse_digits(prefix, input1, log) ==
    LET d == Parse(ok(into_parser(Digits)), input1)
    IN CASE d.tag # "ok" -> [d EXCEPT !.log = log \o d.log]
         [] d.out.t = "Some" ->
              Ok(Node("Escape",
                      <<Slice(split_to(prefix, 1 + Len(d.out.a[1].a[1].s)).out)>>,
                      <<"BackReference">>, <<>>),
                 d.cur, log \o d.log)
         [] OTHER ->
              Err(Kind("Pattern", "Escape", "Recovable",
                       SpanRange(start(prefix), start(d.cur))),
                  d.cur, log \o d.log)

\* Escape::parse of pattern.rs; a two-item escape is named by its letter
Escape_parse(p, c) ==
    LET prefix == clone(c)
        r0 == Parse(ok(next("\\")), c)
        input1 == r0.cur
        first == IF len(input1) > 0 THEN input1.value[1] ELSE ""
    IN CASE r0.tag # "ok" -> r0
         [] r0.out = None ->
              Err(Kind("Pattern", "Escape", "Recovable",
                       SpanRange(start(input1), start(input1))),
                  input1, r0.log)
         [] first \in SimpleEscapes ->
              LET sp == split_off(prefix, 2)
              IN Ok(Node("Escape", <<Slice(sp.rest)>>, <<first>>, <<>>), sp.out, r0.log)
         [] first = "x" -> Escape_parse_x(prefix, input1, r0.log)
         [] first = "u" -> Escape_parse_u(prefix, input1, r0.log)
         [] OTHER -> Escape_parse_digits(prefix, input1, r0.log)

\* the escapes of escape.rs that are the two items "\\" and a character
escape_SimpleEscapes ==
    {"|", "\\", "^", "$", "*", "+", "-", "?", "{", "[", "(", ")", ".",
     "b", "B", "d", "D", "f", "n", "r", "s", "S", "t", "v", "w", "W"}

\* Escape::parse of escape.rs, the arm Some('u')
escape_Escape_parse_u(c) ==
    LET content == split_off(clone(c), 2).out
        ds == Parse(next("{"), content)
        num == Parse(take_while_range_from(1, is_ascii_hexdigit), ds.cur)
        de == Parse(next("}"), num.cur)
    IN CASE ds.tag # "ok" -> Err(CompileError_map_fatal("EscapeUnicode", ds.err), c, ds.log)
         [] num.tag # "ok" ->
              Err(CompileError_map_fatal("EscapeUnicode", num.err), c, ds.log \o num.log)
         [] de.tag # "ok" ->
              Err(CompileError_map_fatal("EscapeUnicode", de.err), c,
                  ds.log \o num.log \o de.log)
         [] OTHER ->
              LET sp == split_to(c, 4 + Len(num.out.s))
              IN Ok(Node("escape_Escape", <<Slice(sp.out)>>, <<"Unicode">>, <<>>),
                    sp.rest, ds.log \o num.log \o de.log)

\* Escape::parse of escape.rs; a two-item escape is named by its character
escape_Escape_parse(p, c) ==
    LET first == IF len(c) > 0 THEN c.value[1] ELSE ""
        second == IF len(c) > 1 THEN c.value[2] ELSE ""
    IN CASE first # "\\" ->
              Err(Kind("Compile", "Escape", "Recovable", to_span_at(c, 1)), c, <<>>)
         [] second \in escape_SimpleEscapes ->
              LET sp == split_to(c, 2)
              IN Ok(Node("escape_Escape", <<Slice(sp.out)>>, <<second>>, <<>>), sp.rest, <<>>)
         [] second = "x" ->
              LET r == Parse(take_while_range(2, 2, is_ascii_hexdigit),
                             split_off(clone(c), 2).out)
                  sp == split_to(c, 4)
              IN IF r.tag # "ok"
                 THEN Err(CompileError_map_fatal("EscapeHex", r.err), c, r.log)
                 ELSE Ok(Node("escape_Escape", <<Slice(sp.out)>>, <<"Hex">>, <<>>),
                         sp.rest, r.log)
         [] second = "u" -> escape_Escape_parse_u(c)
         [] OTHER ->
              LET r == Parse(ok(take_while_range_from(1, is_ascii_digit)),
                             split_off(clone(c), 1).out)
              IN CASE r.tag # "ok" -> Err(CompileError_map("Escape", r.err), c, r.log)
                   [] r.out.t = "Some" ->
                        LET sp == split_to(c, 1 + Len(r.out.a[1].s))
                        IN Ok(Node("escape_Escape", <<Slice(sp.out)>>,
                                   <<"BackReferences">>, <<>>),
                              sp.rest, r.log)
                   [] OTHER ->
                        Err(Kind("Compile", "Escape", "Recovable", to_span_at(c, 1)),
                            c, r.log)

(***************************************************************************)
(* crates/pattex/src/pattern/digits.rs, repeat.rs and class.rs.            *)
(***************************************************************************)
\* From<(ControlFlow, Kind, I)> for RegexError, as next() builds its error:
\* the span is that of the item the cursor is at
RegexError_from(err, c) == [err EXCEPT !.span = to_span_at(c, Min(1, len(c)))]

\* char comparison: ItemSeq lists the items in the order of their codes
Code(item) == CHOOSE i \in 1..Len(ItemSeq) : ItemSeq[i] = item

\* str::parse::<u64>() of a digit sequence
RECURSIVE parse_u64(_)
parse_u64(digits) ==
    IF digits = <<>> THEN 0
    ELSE 10 * parse_u64(SubSeq(digits, 1, Len(digits) - 1))
            + (CASE digits[Len(digits)] = "1" -> 1
                 [] digits[Len(digits)] = "2" -> 2
                 [] OTHER -> 0)

\* Digits::parse of digits.rs; an input here is shorter than the 20 digits
\* it takes to overflow u64, so the conversion of content succeeds
digits_Digits_parse(p, c) ==
    LET content == Parse(take_while_range_from(1, is_ascii_digit), c)
    IN IF content.tag # "ok"
       THEN Err(CompileError_map("Digits", content.err), content.cur, content.log)
       ELSE Ok(Node("Digits", <<content.out>>, <<>>, <<parse_u64(content.out.s)>>),
               content.cur, content.log)

\* .map_err(CompileError::Repeat.map_fatal()) that keeps the severity
Repeat_map_keep(err) == CompileError_map("Repeat", err)

\* .map_err(CompileError::Repeat.map_fatal())
Repeat_map_fatal(err) == CompileError_map_fatal("Repeat", err)

\* the slice of a quantifier without its closing brace
Repeat_input_open(span0, endtok) ==
    split_to(span0, start(TokenStream(endtok.n[1], endtok.s)) - start(span0)).out

\* span.split_to(end.end() - span.start())
Repeat_input(span0, endtok) ==
    split_to(span0, end(TokenStream(endtok.n[1], endtok.s)) - start(span0)).out

\* Repeat::parse, after "{" n "," m
Repeat_parse_range(span0, n, m, c, log) ==
    LET e == Parse(next("}"), c)
    IN CASE e.tag # "ok" ->
              Err(Repeat_map_fatal(RegexError_from(e.err, c)), e.cur, log \o e.log)
         [] n.n[1] > m.n[1] ->
              Err(Kind("Compile", "Repeat", "Fatal",
                       to_span_at(span0, end(TokenStream(e.out.n[1], e.out.s)) - start(span0))),
                  e.cur, log \o e.log)
         [] OTHER ->
              Ok(Node("Repeat", <<n, m, Slice(Repeat_input(span0, e.out))>>, <<"Range">>, <<>>),
                 e.cur, log \o e.log)

\* Repeat::parse, after "{" n ","  with no m, and after "{" n
Repeat_parse_end(variant, span0, n, c, log) ==
    LET e == Parse(next("}"), c)
    IN IF e.tag # "ok"
       THEN Err(Repeat_map_fatal(RegexError_from(e.err, c)), e.cur, log \o e.log)
       ELSE Ok(Node("Repeat", <<n, Slice(Repeat_input(span0, e.out))>>, <<variant>>, <<>>),
               e.cur, log \o e.log)

\* Repeat::parse
Repeat_parse(p, c) ==
    LET span0 == clone(c)
        open == Parse(next("{"), c)
        n == Parse(digits_Digits, open.cur)
        comma == Parse(ok(next(",")), n.cur)
        m == Parse(ok(digits_Digits), comma.cur)
    IN CASE open.tag # "ok" ->
              Err(CompileError_map("Repeat", RegexError_from(open.err, c)), open.cur, open.log)
         [] n.tag # "ok" ->
              Err(Repeat_map_fatal(n.err), n.cur, open.log \o n.log)
         [] comma.tag # "ok" ->
              Err(Repeat_map_fatal(comma.err), comma.cur, open.log \o n.log \o comma.log)
         [] comma.out.t = "None" ->
              Repeat_parse_end("Repeat", span0, n.out, comma.cur,
                               open.log \o n.log \o comma.log)
         [] m.tag # "ok" ->
              Err(Repeat_map_fatal(m.err), m.cur,
                  open.log \o n.log \o comma.log \o m.log)
         [] m.out.t = "None" ->
              Repeat_parse_end("From", span0, n.out, m.cur,
                               open.log \o n.log \o comma.log \o m.log)
         [] OTHER ->
              Repeat_parse_range(span0, n.out, m.out.a[1], m.cur,
                                 open.log \o n.log \o comma.log \o m.log)

\* token_lookahead(c): c begins a token (token.rs, Token::parse) or is the
\* '-' of a range
token_lookahead ==
    SelectSeq(ItemSeq, LAMBDA c : c \in {"\\", "|", "^", "$", "*", "+", "?", "{", "[", "]",
                                          ":", ".", "=", "(", ")", "-"})

\* Chars::parse; the sequence is taken from the clone  content , so the
\* last arm,  return Ok(Self::Sequnce(sequnce)) , leaves the cursor as it was
Chars_parse(p, c) ==
    LET escape == Parse(ok(escape_Escape), c)
        content0 == clone(c)
        sequnce == Parse(take_while_range_from(1, Not(token_lookahead)), content0)
        content == sequnce.cur
    IN CASE escape.tag # "ok" -> escape
         [] escape.out.t = "Some" ->
              Ok(Node("Chars", <<escape.out.a[1]>>, <<"Escape">>, <<>>), escape.cur, escape.log)
         [] sequnce.tag # "ok" ->
              Err(CompileError_map("CharSequence", sequnce.err), c, escape.log \o sequnce.log)
         [] len(content) > 0 /\ content.value[1] = "-" /\ Len(sequnce.out.s) = 1 ->
              IF len(content) < 2
              THEN Err(Kind("Compile", "CharRange", "Fatal",
                            SpanRange(start(content) - 1,
                                      Min(end(content), start(content) + 1))),
                       c, escape.log \o sequnce.log)
              ELSE IF ~(Code(sequnce.out.s[1]) < Code(content.value[2]))
              THEN Err(Kind("Compile", "CharRange", "Fatal",
                            SpanRange(start(content) - 1, start(content) + 2)),
                       c, escape.log \o sequnce.log)
              ELSE LET sp == split_to(c, 3)
                   IN Ok(Node("Chars", <<Slice(sp.out)>>,
                              <<"Range", sequnce.out.s[1], content.value[2]>>, <<>>),
                         sp.rest, escape.log \o sequnce.log)
         [] len(content) > 0 /\ content.value[1] = "-" ->
              LET sp == split_to(c, Len(sequnce.out.s) - 1)
              IN Ok(Node("Chars", <<Slice(sp.out)>>, <<"Sequnce">>, <<>>),
                    sp.rest, escape.log \o sequnce.log)
         [] OTHER ->
              Ok(Node("Chars", <<sequnce.out>>, <<"Sequnce">>, <<>>),
                 c, escape.log \o sequnce.log)

\* CharClass::parse
CharClass_parse(p, c) ==
    LET delimiter_start == Parse(next("["), c)
        negated == Parse(ok(next("^")), delimiter_start.cur)
        chars == Parse(Vec(Chars), negated.cur)
        delimiter_end == Parse(next("]"), chars.cur)
        lg == delimiter_start.log \o negated.log \o chars.log
    IN CASE delimiter_start.tag # "ok" ->
              Err(CompileError_map("CharClass", RegexError_from(delimiter_start.err, c)),
                  delimiter_start.cur, delimiter_start.log)
         [] negated.tag # "ok" ->
              Err(CompileError_map_fatal("CharClass", negated.err), negated.cur,
                  delimiter_start.log \o negated.log)
         [] chars.tag = "diverge" -> Diverge(chars.cur, lg)
         [] chars.tag # "ok" ->
              Err(CompileError_map_fatal("CharClass", chars.err), chars.cur, lg)
         [] chars.out.a = <<>> ->
              Err(Kind("Compile", "CharClass", "Fatal",
                       SpanRange(delimiter_start.out.n[1], delimiter_start.out.n[1])),
                  chars.cur, lg)
         [] delimiter_end.tag # "ok" ->
              Err(CompileError_map_fatal("CharClass",
                                         RegexError_from(delimiter_end.err, chars.cur)),
                  delimiter_end.cur, lg \o delimiter_end.log)
         [] OTHER ->
              Ok(Node("CharClass",
                      <<delimiter_start.out, negated.out, chars.out, delimiter_end.out>>,
                      <<>>, <<>>),
                 delimiter_end.cur, lg \o delimiter_end.log)

(***************************************************************************)
(* Parser::parse / Syntax::parse: dynamic dispatch on the parser's type.   *)
(***************************************************************************)
Parse(p, c) ==
    CASE p.t = "next" -> next_parse(p, c)
      [] p.t = "next_if" -> next_if_parse(p, c)
      [] p.t = "keyword" -> keyword_parse(p, c)
      [] p.t = "take_until" -> take_until_parse(p, c)
      [] p.t = "take_while" -> take_while_parse(p, c)
      [] p.t = "ok" -> IsOk_parse(p, c)
      [] p.t = "map" -> Map_parse(p, c)
      [] p.t = "fatal" -> Fatal_parse(p, c)
      [] p.t = "or" -> Or_parse(p, c)
      [] p.t = "SyntaxParser" -> SyntaxParser_parse(p, c)
      [] p.t = "PhantomData" -> PhantomData_parse(p, c)
      [] p.t = "Option" -> Option_parse(p, c)
      [] p.t = "Box" -> Box_parse(p, c)
      [] p.t = "Vec" -> Vec_parse(p, c)
      [] p.t = "Delimiter" -> Delimiter_parse(p, c)
      [] p.t = "LimitsTo" -> LimitsTo_parse(p, c)
      [] p.t = "Limits" -> Limits_parse(p, c)
      [] p.t = "LimitsFrom" -> LimitsFrom_parse(p, c)
      [] p.t = "Punctuated" -> Punctuated_parse(p, c)
      [] p.t = "Or" -> SyntaxOr_parse(p, c)
      [] p.t = "Mock" -> Mock_parse(p, c)
      [] p.t = "Keyword" -> Keyword_parse(p, c)
      [] p.t = "Token" -> Token_parse(p, c)
      [] p.t = "Struct" -> Struct_parse(p, c)
      [] p.t = "Variant" -> Variant_parse(p, c)
      [] p.t = "Enum" -> Enum_parse(p, c)
      [] p.t = "Tuple" -> Tuple_parse(p, c)
      [] p.t = "take_while_range" -> take_while_range_parse(p, c)
      [] p.t = "take_while_range_from" -> take_while_range_from_parse(p, c)
      [] p.t = "S" -> pattern_S_parse(p, c)
      [] p.t = "Digits" -> Digits_parse(p, c)
      [] p.t = "Escape" -> Escape_parse(p, c)
      [] p.t = "escape_Escape" -> escape_Escape_parse(p, c)
      [] p.t = "digits_Digits" -> digits_Digits_parse(p, c)
      [] p.t = "Repeat" -> Repeat_parse(p, c)
      [] p.t = "Chars" -> Chars_parse(p, c)
      [] p.t = "CharClass" -> CharClass_parse(p, c)

(***************************************************************************)
(* The grammars the operations are run with.                               *)
(***************************************************************************)
A == next("a")
Comma == next(",")
ParenStart == next("(")
ParenEnd == next(")")
\* token!(As, |c| c == 'a'): zero or more "a"
As == Token("As", <<"a">>)
\* struct Pair(A, Comma): fails after consuming "a" when no "," follows
Pair == Struct("Pair", <<A, Comma>>)
\* "(" a* ")": commits once "(" has matched
Group == Delimiter(ParenStart, ParenEnd, Vec(A))

Elems == {A, Comma, ParenStart, ParenEnd, As, Pair, Group, fatal(A)}
Seconds == {A, Comma, Pair, Group}
Bodies == {A, Vec(A), Punctuated(A, Comma), Vec(SyntaxOr(A, Group))}
Starts == {ParenStart, Pair, Group}
Puncts == {Comma, ParenEnd, As, Group}
Limited == {As, Vec(A), Pair, Group, Option(A),
            Mock(SpanRangeFrom(0)), Mock(SpanRangeFull), Mock(SpanRangeTo(MaxLimit))}
Enums == {Enum("Key", <<Variant("P", <<Pair>>), Variant("A", <<A>>)>>),
          Enum("Key", <<Variant("A", <<A>>), Variant("P", <<Pair>>)>>),
          Enum("Pattern", <<Variant("Chars", <<A, A>>), Variant("Capture", <<Group>>),
                            Variant("Comma", <<Comma>>)>>),
          Enum("Pattern", <<Variant("Opt", <<Vec(Group), Comma>>), Variant("A", <<A>>)>>),
          Enum("Unit", <<>>)}
Structs == {Pair, Struct("Call", <<A, Group>>), Struct("Unit", <<>>),
            Struct("Args", <<Option(A), Punctuated(Group, Comma)>>)}

\* the predicates given to next_if, take_while, take_till and token!
Conds == {<<>>, <<"a">>, <<"a", ",">>, <<"(", ")">>, ItemSeq}
\* the keywords given to keyword, take_until and keyword!
Keywords == {<<>>, <<"a">>, <<",">>, <<"a", "a">>, <<"(", ")">>, <<"a", ",", "a">>}

\* the contents of an escape sequence: hexadecimal digits and others
RECURSIVE HexStrings(_)
HexStrings(n) ==
    IF n = 0 THEN {<<>>}
    ELSE HexStrings(n - 1)
            \cup {Append(s, i) : s \in {x \in HexStrings(n - 1) : Len(x) = n - 1}, i \in {"a", ","}}

\* every input of at most MaxLen items
RECURSIVE Strings(_)
Strings(n) ==
    IF n = 0 THEN {<<>>}
    ELSE Strings(n - 1) \cup {Append(s, i) : s \in {x \in Strings(n - 1) : Len(x) = n - 1}, i \in Items}

(***************************************************************************)
(* State: the caller's cursor and the last call made on it.                *)
(***************************************************************************)
VARIABLES
    pc,       \* "ready": about to call; "done": a call returned; "hung": a call never returns
    input,    \* the caller's cursor (the &mut I given to parse)
    before,   \* the cursor as it was when the last call was made
    parser,   \* the parser of the last call
    result,   \* what the last call returned
    lhs,      \* span algebra: the receiver of the last union or between
    rhs,      \* span algebra: the argument of the last union or between
    span,     \* span algebra: the result of the last union or between
    source,     \* history: the whole input the caller started with
    clean,      \* history: every call made so far returned Ok
    consumed,   \* history, kept while clean: the slices held by the nodes returned
                \* so far, concatenated
    contiguous  \* history, kept while clean: each of those slices started where
                \* the one before it ended

vars == <<pc, input, before, parser, result, lhs, rhs, span, source, clean, consumed, contiguous>>

\* the input slices a node holds, in the order of the input
RECURSIVE Leaves(_)
RECURSIVE LeavesAll(_)
Leaves(v) ==
    CASE v.t = "input" -> <<TokenStream(v.n[1], v.s)>>
      [] v.t = "Delimiter" -> Leaves(v.a[1]) \o Leaves(v.a[3]) \o Leaves(v.a[2])
      [] OTHER -> LeavesAll(v.a)

LeavesAll(nodes) ==
    IF nodes = <<>> THEN <<>> ELSE Leaves(Head(nodes)) \o LeavesAll(Tail(nodes))

\* the contents of slices, concatenated
RECURSIVE Concat(_)
Concat(slices) ==
    IF slices = <<>> THEN <<>> ELSE Head(slices).value \o Concat(Tail(slices))

\* the first slice starts at offset from, each other one where the one
\* before it ended
Chain(slices, from) ==
    \A i \in 1..Len(slices) :
        start(slices[i]) = IF i = 1 THEN from ELSE end(slices[i - 1])

NoResult == [tag |-> "", out |-> NoNode, err |-> NoErr, cur |-> TokenStream(0, <<>>), log |-> <<>>]

\* the inputs that begin an escape sequence
EscapeInputs ==
    {<<"\\">> \o v : v \in Strings(MaxLen - 1)}
        \cup {<<"\\", "x">> \o v : v \in HexStrings(MaxLen - 1)}

Init ==
    /\ pc = "ready"
    /\ input \in {TokenStream_from(v) : v \in Strings(MaxLen) \cup EscapeInputs}
    /\ before = input
    /\ parser = NoNode
    /\ result = NoResult
    /\ lhs = SpanNone /\ rhs = SpanNone /\ span = SpanNone
    /\ source = input.value
    /\ consumed = <<>> /\ contiguous = TRUE /\ clean = TRUE

\* the caller runs parser p on its cursor
Run(p) ==
    /\ pc = "ready"
    /\ LET r == Parse(p, input)
       IN /\ result' = r
          /\ input' = r.cur
          /\ pc' = IF r.tag = "diverge" THEN "hung" ELSE "done"
          /\ clean' = (clean /\ r.tag = "ok")
          /\ consumed' = IF clean /\ r.tag = "ok"
                         THEN consumed \o Concat(Leaves(r.out))
                         ELSE <<>>
          /\ contiguous' = IF clean /\ r.tag = "ok"
                           THEN contiguous /\ Chain(Leaves(r.out), Len(consumed))
                           ELSE TRUE
    /\ before' = input
    /\ parser' = p
    /\ UNCHANGED <<lhs, rhs, span, source>>

ParseNext == \E item \in Items : Run(next(item))
ParseNextIf == \E f \in Conds : Run(next_if(f))
ParseKeyword == \E kw \in Keywords : Run(keyword(kw))
ParseTakeUntil == \E kw \in Keywords : Run(take_until(kw))
ParseTakeWhile == \E cond \in Conds : Run(take_while(cond))
ParseTakeTill == \E cond \in Conds : Run(take_till(cond))
ParseToken == \E f \in Conds : Run(Token("Tok", f))
ParseIsOk == \E p \in Elems : Run(ok(p))
ParseOption == \E T \in Elems : Run(Option(T))
ParseFatal == \E p \in Elems : Run(fatal(p))
ParseOr == \E p \in Elems, q \in Seconds : Run(or(p, q))
ParseVec == \E T \in Elems : Run(Vec(T))
ParseDelimiter == \E S \in Starts, B \in Bodies : Run(Delimiter(S, ParenEnd, B))
ParsePunctuated == \E T \in Elems, P \in Puncts : Run(Punctuated(T, P))
ParseSyntaxOr == \E F \in Elems, S \in Seconds : Run(SyntaxOr(F, S))
ParseLimitsTo == \E T \in Limited, N \in 0..MaxLimit : Run(LimitsTo(T, N))
ParseLimits ==
    \E T \in Limited, LOWER \in 0..MaxLimit, HIGHER \in 0..MaxLimit : Run(Limits(T, LOWER, HIGHER))
ParseLimitsFrom == \E T \in Limited, LOWER \in 0..MaxLimit : Run(LimitsFrom(T, LOWER))
ParseEnum == \E E \in Enums : Run(E)
ParseStruct == \E S \in Structs : Run(S)
ParseEscape == Run(Escape)
ParseEscapeToken == Run(escape_Escape)

\* the caller goes on with the cursor the last call left it
Continue ==
    /\ pc = "done"
    /\ pc' = "ready"
    /\ before' = input
    /\ parser' = NoNode
    /\ result' = NoResult
    /\ UNCHANGED <<input, lhs, rhs, span, source, consumed, contiguous, clean>>

Next ==
    \/ ParseNext
    \/ ParseNextIf
    \/ ParseKeyword
    \/ ParseTakeUntil
    \/ ParseTakeWhile
    \/ ParseTakeTill
    \/ ParseToken
    \/ ParseIsOk
    \/ ParseOption
    \/ ParseFatal
    \/ ParseOr
    \/ ParseVec
    \/ ParseDelimiter
    \/ ParsePunctuated
    \/ ParseSyntaxOr
    \/ ParseLimitsTo
    \/ ParseLimits
    \/ ParseLimitsFrom
    \/ ParseEnum
    \/ ParseStruct
    \/ ParseEscape
    \/ ParseEscapeToken
    \/ Continue

Spec == Init /\ [][Next]_vars

(***************************************************************************)
(* The span algebra on its own: union and between applied to every pair of *)
(* spans.                                                                  *)
(***************************************************************************)
InitSpan ==
    /\ pc = "span"
    /\ input = TokenStream(0, <<>>) /\ before = input
    /\ parser = NoNode /\ result = NoResult
    /\ lhs \in Spans /\ rhs \in Spans
    /\ span = SpanNone
    /\ source = <<>> /\ consumed = <<>> /\ contiguous = TRUE /\ clean = TRUE

Union ==
    /\ pc = "span"
    /\ span' = union(lhs, rhs)
    /\ pc' = "union"
    /\ UNCHANGED <<input, before, parser, result, lhs, rhs, source, consumed, contiguous, clean>>

Between ==
    /\ pc = "span"
    /\ span' = between(lhs, rhs)
    /\ pc' = "between"
    /\ UNCHANGED <<input, before, parser, result, lhs, rhs, source, consumed, contiguous, clean>>

NextSpan == Union \/ Between

SpecSpan == InitSpan /\ [][NextSpan]_vars

(***************************************************************************)
(* The cursor on its own: split_to and split_off applied to every cursor,  *)
(* with a clone of the cursor taken before the call.                       *)
(***************************************************************************)
InitCursor ==
    /\ pc = "cursor"
    /\ input \in {TokenStream(offset, value) : offset \in 0..MaxIdx, value \in Strings(MaxLen)}
    /\ before = input
    /\ parser = NoNode /\ result = NoResult
    /\ lhs = SpanNone /\ rhs = SpanNone /\ span = SpanNone
    /\ source = input.value
    /\ consumed = <<>> /\ contiguous = TRUE /\ clean = TRUE

SplitTo ==
    /\ pc = "cursor"
    /\ \E at \in 0..len(input) :
          LET sp == split_to(input, at)
          IN /\ result' = Ok(Slice(sp.out), sp.rest, <<>>)
             /\ input' = sp.rest
             /\ parser' = Node("split_to", <<>>, <<>>, <<at>>)
    /\ before' = clone(input)
    /\ pc' = "split"
    /\ UNCHANGED <<lhs, rhs, span, source, consumed, contiguous, clean>>

SplitOff ==
    /\ pc = "cursor"
    /\ \E at \in 0..len(input) :
          LET sp == split_off(input, at)
          IN /\ result' = Ok(Slice(sp.out), sp.rest, <<>>)
             /\ input' = sp.rest
             /\ parser' = Node("split_off", <<>>, <<>>, <<at>>)
    /\ before' = clone(input)
    /\ pc' = "split"
    /\ UNCHANGED <<lhs, rhs, span, source, consumed, contiguous, clean>>

NextCursor == SplitTo \/ SplitOff

SpecCursor == InitCursor /\ [][NextCursor]_vars

(***************************************************************************)
(* Alternatives: p.or(q), chains p1.or(p2).or(p3) and Or<F, S>, called on  *)
(* the threaded cursor.                                                    *)
(***************************************************************************)
ChainAlts == {A, Comma, Pair, Group, keyword(<<"a", ",">>)}

ParseOrChain == \E p1 \in ChainAlts, p2 \in ChainAlts, p3 \in ChainAlts : Run(or(or(p1, p2), p3))

NextOr ==
    \/ ParseOr
    \/ ParseSyntaxOr
    \/ ParseOrChain
    \/ Continue

SpecOr == Init /\ [][NextOr]_vars

(***************************************************************************)
(* The regex-pattern grammar of crates/pattex: one call of a pattern       *)
(* parser on a cursor over a quantifier or a character class.              *)
(***************************************************************************)
RepeatItems == {"{", "}", ",", "1", "2"}
ClassItems == {"[", "]", "-", "2", "\\"}
\* inputs with whitespace, a negated class and a letter, after the
\* repository's tests (repeat.rs, class.rs)
PatternTests ==
    {<<"{", " ", "1", "}">>, <<"{", "1", " ", "}">>, <<"{", "1", ",", " ", "}">>,
     <<"{", "1", ",", " ", "2", "}">>, <<"{", "1", " ", ",", "2", "}">>,
     <<"{", "1", "2", ",", "2", "}">>, <<"{", "1", "2", ",", "}", "1">>,
     <<"[", "^", "\\", "-", "2", "-", "a", "]">>, <<"[", "a", "2", "]">>,
     <<"a", "2", "-", "a">>, <<"a", "-", "2">>, <<"a", "-">>, <<"2", "-", "a", "]">>}

RECURSIVE StringsOver(_, _)
StringsOver(items, n) ==
    IF n = 0 THEN {<<>>}
    ELSE StringsOver(items, n - 1)
            \cup {Append(s, i) : s \in {x \in StringsOver(items, n - 1) : Len(x) = n - 1},
                                 i \in items}

\* TokenStream::from(s) and TokenStream::from((2, s))
PatternInputs ==
    {TokenStream(offset, v) :
        offset \in {0, 2},
        v \in StringsOver(RepeatItems, MaxPat) \cup StringsOver(ClassItems, MaxPat)
                \cup PatternTests}

InitPattern ==
    /\ pc = "ready"
    /\ input \in PatternInputs
    /\ before = input
    /\ parser = NoNode /\ result = NoResult
    /\ lhs = SpanNone /\ rhs = SpanNone /\ span = SpanNone
    /\ source = input.value
    /\ consumed = <<>> /\ contiguous = TRUE /\ clean = TRUE

ParseRepeat == Run(Repeat)
ParseDigits == Run(Digits)
ParseDigitsValue == Run(digits_Digits)
ParseChars == Run(Chars)
ParseCharClass == Run(CharClass)

NextPattern ==
    \/ ParseRepeat
    \/ ParseDigits
    \/ ParseDigitsValue
    \/ ParseChars
    \/ ParseCharClass

SpecPattern == InitPattern /\ [][NextPattern]_vars

(***************************************************************************)
(* The loops of Vec and Punctuated over element parsers that can succeed   *)
(* without consuming input, and CharClass, which holds a Vec<Chars>.       *)
(***************************************************************************)
\* a token built on take_while, Option<T>, PhantomData, Chars
Unconsuming == {Token("Number", is_ascii_digit), Option(next("2")), PhantomData, Chars}
Separators == {next("-"), PhantomData, Option(next("-"))}

InitLoop ==
    /\ pc = "ready"
    /\ input \in {TokenStream_from(v) : v \in StringsOver(ClassItems, MaxLen) \cup PatternTests}
    /\ before = input
    /\ parser = NoNode /\ result = NoResult
    /\ lhs = SpanNone /\ rhs = SpanNone /\ span = SpanNone
    /\ source = input.value
    /\ consumed = <<>> /\ contiguous = TRUE /\ clean = TRUE

ParseVecUnconsuming == \E T \in Unconsuming \cup {next("2")} : Run(Vec(T))
ParsePunctuatedUnconsuming ==
    \E T \in Unconsuming \cup {next("2")}, P \in Separators : Run(Punctuated(T, P))

NextLoop ==
    \/ ParseVecUnconsuming
    \/ ParsePunctuatedUnconsuming
    \/ ParseCharClass

SpecLoop == InitLoop /\ [][NextLoop]_vars

(***************************************************************************)
(* The tuple impls: derive_tuple_syntax!(len) is expanded, then a tuple    *)
(* type that has an impl is parsed.                                        *)
(***************************************************************************)
\* parserc's own call is derive_tuple_syntax!(16) (syntax.rs:388)
TupleLens == {0, 2, 3, 4, 16}

RECURSIVE Padded(_, _)
Padded(types, n) ==
    IF Len(types) >= n THEN types ELSE Padded(Append(types, PhantomData), n)

TupleTypes ==
    {Tuple(Padded(types, n)) :
        types \in {<<A, Comma>>, <<Comma, A>>, <<A, A>>, <<Option(A), Pair>>,
                   <<A, PhantomData, Comma, A>>},
        n \in 2..16}

InitTuple ==
    /\ pc = "macro"
    /\ input \in {TokenStream_from(v) : v \in Strings(MaxLen)}
    /\ before = input
    /\ parser = NoNode /\ result = NoResult
    /\ lhs = SpanNone /\ rhs = SpanNone /\ span = SpanNone
    /\ source = input.value
    /\ consumed = <<>> /\ contiguous = TRUE /\ clean = TRUE

DeriveTupleSyntax ==
    /\ pc = "macro"
    /\ \E length \in TupleLens :
          /\ parser' = Node("derive_tuple_syntax", <<>>, <<>>, <<length>>)
          /\ result' = Ok(Node("impls", <<>>, <<>>, derive_tuple_syntax(length)), input, <<>>)
    /\ pc' = "derived"
    /\ UNCHANGED <<input, before, lhs, rhs, span, source, consumed, contiguous, clean>>

ParseTuple ==
    /\ pc = "derived"
    /\ \E T \in TupleTypes :
          /\ \E k \in 1..Len(result.out.n) : result.out.n[k] = Len(T.a)
          /\ LET r == Parse(T, input)
             IN /\ result' = r
                /\ input' = r.cur
          /\ parser' = T
    /\ before' = input
    /\ pc' = "tuple"
    /\ UNCHANGED <<lhs, rhs, span, source, consumed, contiguous, clean>>

NextTuple == DeriveTupleSyntax \/ ParseTuple

SpecTuple == InitTuple /\ [][NextTuple]_vars

(***************************************************************************)
(* Properties.                                                             *)
(***************************************************************************)
NonFatal(r) == r.tag = "err" /\ control_flow(r.err) \in {"Recovable", "Incomplete"}
IsFatal(r) == r.tag = "err" /\ control_flow(r.err) = "Fatal"

\* what a result says, its history left out
Verdict(r) == <<r.tag, r.out, r.err, r.cur>>

\* C1: when p fails Recoverable or Incomplete, p.ok() and Option<T>::parse
\* return Ok(None) and the caller's cursor is the cursor it had before the
\* call, whatever p consumed before failing.
C1_OkLeavesCursor ==
    (pc = "done" /\ parser.t \in {"ok", "Option"} /\ NonFatal(Parse(parser.a[1], before)))
        => /\ result.tag = "ok"
           /\ result.out = None
           /\ input = before
           /\ start(input) = start(before) /\ input.value = before.value

\* C1 witness: ok() returned None for a parser that had consumed input
\* before it failed, on a cursor that is not at offset 0
C1_Witness ==
    /\ pc = "done" /\ parser.t = "ok"
    /\ NonFatal(Parse(parser.a[1], before))
    /\ Parse(parser.a[1], before).cur # before
    /\ start(before) > 0
    /\ result.out = None

\* C2: p.or(q): if p succeeds q is not run and p's output and cursor are
\* returned; if p fails non-fatally q is run on the original cursor and its
\* result is the result; if p fails Fatal that error is returned and q is
\* not run.
C2_OrOrder ==
    (pc = "done" /\ parser.t = "or")
        => LET rp == Parse(parser.a[1], before)
               rq == Parse(parser.a[2], before)
           IN /\ rp.tag = "ok" =>
                    /\ result.tag = "ok" /\ result.out = rp.out /\ result.cur = rp.cur
                    /\ result.log = rp.log
              /\ NonFatal(rp) =>
                    /\ Verdict(result) = Verdict(rq)
                    /\ result.log = rp.log \o rq.log
              /\ IsFatal(rp) =>
                    /\ result.tag = "err" /\ result.err = rp.err
                    /\ result.log = rp.log

\* C2 witness: p failed non-fatally after consuming input and q then
\* succeeded from the original cursor
C2_Witness ==
    /\ pc = "done" /\ parser.t = "or"
    /\ NonFatal(Parse(parser.a[1], before))
    /\ Parse(parser.a[1], before).cur # before
    /\ result.tag = "ok"
    /\ start(before) > 0

Kinds == {"Next", "NextIf", "Keyword", "Syntax", "Token", "LimitsTo", "Limits", "LimitsFrom"}

\* every error value: each Kind variant with each severity
Errors ==
    {Kind(k, IF k \in {"Syntax", "Token"} THEN n ELSE "", cf, sp) :
        k \in Kinds, n \in {"Key", "As"}, cf \in ControlFlow,
        sp \in {SpanNone, SpanRange(0, 1), SpanRange(1, MaxLen)}}

\* C3: p.fatal() returns p's success unchanged and turns every failure of p
\* into a Fatal failure with the same kind, name and span; into_fatal is
\* defined on every Kind variant and is idempotent.
C3_FatalEscalates ==
    /\ (pc = "done" /\ parser.t = "fatal")
          => LET r == Parse(parser.a[1], before)
             IN /\ r.tag = "ok" => Verdict(result) = Verdict(r)
                /\ r.tag = "err" =>
                      /\ result.tag = "err"
                      /\ control_flow(result.err) = "Fatal"
                      /\ result.err.kind = r.err.kind
                      /\ result.err.name = r.err.name
                      /\ error_span(result.err) = error_span(r.err)
    /\ \A e \in Errors :
          /\ into_fatal(e) = [e EXCEPT !.cf = "Fatal"]
          /\ into_fatal(into_fatal(e)) = into_fatal(e)

\* C3 witness: fatal() escalated an Incomplete failure
C3_Witness ==
    /\ pc = "done" /\ parser.t = "fatal"
    /\ Parse(parser.a[1], before).tag = "err"
    /\ control_flow(Parse(parser.a[1], before).err) = "Incomplete"
    /\ control_flow(result.err) = "Fatal"

\* C4: a Fatal error is never swallowed: once a failure has been escalated
\* inside a call, the call returns that very error and no parser is tried
\* after the escalation, whatever ok(), or(), Option, Vec, Punctuated, Or
\* or derived enum the escalation is nested in.
C4_FatalNotSwallowed ==
    pc = "done"
        => \A i \in 1..Len(result.log) :
              result.log[i].ev = "fatal"
                 => /\ result.tag = "err"
                    /\ result.err = result.log[i].err
                    /\ \A j \in i..Len(result.log) :
                          /\ result.log[j].ev = "fatal"
                          /\ result.log[j].err = result.log[i].err

\* C4 witness: a repetition whose second element failed Fatal after the
\* first one had matched
C4_Witness ==
    /\ pc = "done" /\ parser.t \in {"Vec", "Punctuated", "Enum"}
    /\ IsFatal(result)
    /\ \E i \in 1..Len(result.log) :
          result.log[i].ev = "call" /\ result.log[i].at > start(before)

\* the cursor after k consecutive successful parses of T from c
RECURSIVE After(_, _, _)
After(T, c, k) == IF k = 0 THEN c ELSE Parse(T, After(T, c, k - 1)).cur

\* Vec<T>::parse returned Ok with the elements matched before the first
\* non-match, the cursor at the start of that non-match
VecStopsAtNonMatch ==
    LET T == parser.a[1]
        elms == result.out.a
        stop == After(T, before, Len(elms))
    IN /\ result.tag = "ok"
       /\ \A i \in 1..Len(elms) :
             LET r == Parse(T, After(T, before, i - 1))
             IN r.tag = "ok" /\ r.out = elms[i]
       /\ Parse(T, stop).tag = "err"
       /\ input = stop

\* C5 as stated: Vec<T>::parse never returns an error, for every element
\* parser T; it returns the elements matched before the first non-match
\* and leaves the cursor at the start of that non-match.
C5_VecNeverFails ==
    (pc = "done" /\ parser.t = "Vec") => VecStopsAtNonMatch

\* C5 amended: Vec<T>::parse returns an error only when an element parse
\* fails Fatal, and then returns that element's error; when it returns Ok it
\* holds the elements matched before the first non-match, which failed
\* Recoverable or Incomplete, and the cursor is at the start of that
\* non-match.
C5_VecFailsOnlyFatal ==
    (pc = "done" /\ parser.t = "Vec")
        => LET T == parser.a[1]
           IN /\ result.tag = "ok" =>
                    /\ VecStopsAtNonMatch
                    /\ NonFatal(Parse(T, input))
              /\ result.tag = "err" =>
                    /\ IsFatal(result)
                    /\ \E k \in 0..len(before) :
                          /\ \A i \in 1..k : Parse(T, After(T, before, i - 1)).tag = "ok"
                          /\ IsFatal(Parse(T, After(T, before, k)))
                          /\ Parse(T, After(T, before, k)).err = result.err

\* C5 witness: Vec returned elements and stopped at a non-match that had
\* consumed input on its speculative cursor
C5_Witness ==
    /\ pc = "done" /\ parser.t = "Vec" /\ result.tag = "ok"
    /\ Len(result.out.a) > 0
    /\ Parse(parser.a[1], input).cur # input

\* C6: Delimiter::parse returns Start's failure with Start's own severity;
\* once Start has matched, every failure of Body or End is returned Fatal.
\* "(" ")" on "(aa" with no closer fails Fatal.
C6_DelimiterCommits ==
    (pc = "done" /\ parser.t = "Delimiter")
        => LET rs == Parse(parser.a[1], before)
               rb == Parse(parser.a[3], rs.cur)
               re == Parse(parser.a[2], rb.cur)
           IN /\ rs.tag = "err" => (result.tag = "err" /\ result.err = rs.err)
              /\ (rs.tag = "ok" /\ result.tag = "err") => control_flow(result.err) = "Fatal"
              /\ (rs.tag = "ok" /\ rb.tag = "err") =>
                    (result.tag = "err" /\ result.err = into_fatal(rb.err))
              /\ (rs.tag = "ok" /\ rb.tag = "ok" /\ re.tag = "err") =>
                    (result.tag = "err" /\ result.err = into_fatal(re.err))
              /\ (parser.a[1] = ParenStart /\ len(before) > 0 /\ before.value[1] # "(") =>
                    (result.tag = "err" /\ control_flow(result.err) = "Recovable")
              /\ (parser = Group /\ before.value = <<"(", "a", "a">>) => IsFatal(result)

\* C6 witness: "(" ")" around a* on "(aa": the opener matched, the closer
\* is missing
C6_Witness ==
    /\ pc = "done" /\ parser = Group
    /\ before.value = <<"(", "a", "a">>
    /\ result.tag = "err"
    /\ result.err.kind = "Next"

\* the cursor after k (T, P) pairs parsed from c
RECURSIVE AfterPairs(_, _, _, _)
AfterPairs(T, P, c, k) ==
    IF k = 0 THEN c ELSE Parse(P, Parse(T, AfterPairs(T, P, c, k - 1)).cur).cur

\* C7: Punctuated<T,P>::parse consumes the longest sequence T P T P ...:
\* each T followed by a P is a pair, in input order; a final T with no P
\* after it is the tail; when no T matches at the start the result is
\* empty, without tail, and nothing is consumed; no P is consumed without
\* a T before it.
C7_PunctuatedGreedy ==
    (pc = "done" /\ parser.t = "Punctuated" /\ result.tag = "ok")
        => LET T == parser.a[1]
               P == parser.a[2]
               pairs == result.out.a[1].a
               tail == result.out.a[2]
               stop == AfterPairs(T, P, before, Len(pairs))
           IN /\ \A i \in 1..Len(pairs) :
                    LET rt == Parse(T, AfterPairs(T, P, before, i - 1))
                        rp == Parse(P, rt.cur)
                    IN /\ rt.tag = "ok" /\ rp.tag = "ok"
                       /\ pairs[i] = Node("Tuple", <<rt.out, rp.out>>, <<>>, <<>>)
              /\ IF tail = None
                 THEN Parse(T, stop).tag = "err" /\ input = stop
                 ELSE LET rt == Parse(T, stop)
                      IN /\ rt.tag = "ok"
                         /\ tail = Some(Node("Box", <<rt.out>>, <<>>, <<>>))
                         /\ Parse(P, rt.cur).tag = "err"
                         /\ input = rt.cur
              /\ Parse(T, before).tag = "err" =>
                    (pairs = <<>> /\ tail = None /\ input = before)

\* C7 witness: a pair followed by a tail ("a,a")
C7_Witness ==
    /\ pc = "done" /\ parser.t = "Punctuated" /\ result.tag = "ok"
    /\ Len(result.out.a[1].a) > 0
    /\ result.out.a[2] # None
    /\ len(input) < len(before) - 2

\* C8: Or<F,S>::parse: when F succeeds the result is First and S is not
\* run; when F fails Recoverable, S is parsed from the cursor F started at
\* and its result is final: Second on success, S's error on failure.
C8_SyntaxOrOrder ==
    (pc = "done" /\ parser.t = "Or")
        => LET rf == Parse(parser.a[1], before)
               rs == Parse(parser.a[2], before)
           IN /\ rf.tag = "ok" =>
                    /\ result.tag = "ok"
                    /\ result.out = Node("First", <<rf.out>>, <<>>, <<>>)
                    /\ result.cur = rf.cur
                    /\ result.log = rf.log
              /\ (rf.tag = "err" /\ control_flow(rf.err) = "Recovable") =>
                    /\ result.log = rf.log \o rs.log
                    /\ rs.tag = "ok" =>
                          /\ result.tag = "ok"
                          /\ result.out = Node("Second", <<rs.out>>, <<>>, <<>>)
                          /\ result.cur = rs.cur
                    /\ rs.tag = "err" => (result.tag = "err" /\ result.err = rs.err)

\* C8 witness: F failed Recoverable after consuming input, then S failed
\* and its error was returned
C8_Witness ==
    /\ pc = "done" /\ parser.t = "Or"
    /\ Parse(parser.a[1], before).tag = "err"
    /\ control_flow(Parse(parser.a[1], before).err) = "Recovable"
    /\ Parse(parser.a[1], before).cur # before
    /\ result.tag = "err"
    /\ result.err = Parse(parser.a[2], before).err

\* C9: when T parses but its length is out of bound, Limits, LimitsTo and
\* LimitsFrom each fail Recoverable with their own kind (Kind::Limits,
\* Kind::LimitsTo, Kind::LimitsFrom) and the span of the cursor as it was
\* before T was parsed.
C9_LimitsOwnKind ==
    (/\ pc = "done" /\ parser.t \in {"Limits", "LimitsTo", "LimitsFrom"}
     /\ Parse(parser.a[1], before).tag = "ok"
     /\ result.tag = "err")
        => /\ control_flow(result.err) = "Recovable"
           /\ result.err.kind = parser.t
           /\ error_span(result.err) = to_span(before)

\* C10: Span::union is commutative and idempotent over the five span kinds.
C10_UnionCommutativeIdempotent ==
    pc = "union"
        => /\ span = union(rhs, lhs)
           /\ lhs = rhs => span = lhs

\* the offsets inside a span; MaxIdx + 1 stands for every offset beyond
\* the bounds in use
Offsets(s) ==
    CASE s.k = "None" -> {}
      [] s.k = "Range" -> {i \in 0..(MaxIdx + 1) : s.lo <= i /\ i < s.hi}
      [] s.k = "RangeFrom" -> {i \in 0..(MaxIdx + 1) : s.lo <= i}
      [] s.k = "RangeTo" -> {i \in 0..(MaxIdx + 1) : i < s.hi}
      [] s.k = "RangeFull" -> 0..(MaxIdx + 1)

\* C11: Span::union(a, b) is the smallest span covering both operands:
\* every offset inside a or inside b is inside the result, and the kind is
\* the least one: Range with RangeFrom gives RangeFrom from the smaller
\* start, Range with RangeTo gives RangeTo to the larger end, RangeTo with
\* RangeFrom gives RangeFull, two Ranges give Range(min start .. max end).
C11_UnionSmallestCover ==
    pc = "union"
        => /\ (Offsets(lhs) \cup Offsets(rhs)) \subseteq Offsets(span)
           /\ {lhs.k, rhs.k} = {"Range", "RangeFrom"} =>
                 span = SpanRangeFrom(Min(lhs.lo, rhs.lo))
           /\ {lhs.k, rhs.k} = {"Range", "RangeTo"} =>
                 span = SpanRangeTo(Max(lhs.hi, rhs.hi))
           /\ {lhs.k, rhs.k} = {"RangeTo", "RangeFrom"} => span = SpanRangeFull
           /\ {lhs.k, rhs.k} = {"Range"} =>
                 span = SpanRange(Min(lhs.lo, rhs.lo), Max(lhs.hi, rhs.hi))

\* a span with an upper bound, a span with a lower bound
HasEnd(s) == s.k \in {"Range", "RangeTo"}
HasStart(s) == s.k \in {"Range", "RangeFrom"}
\* a ends strictly before b starts
Below(a, b) == HasEnd(a) /\ HasStart(b) /\ a.hi < b.lo

\* C12: Span::between(a, b) is None when a and b overlap or touch or when
\* no bounded gap exists (either is None or RangeFull, both are RangeFrom,
\* both are RangeTo); otherwise it is Range(e..s), e the end of the lower
\* span and s the start of the upper one; the order of the arguments does
\* not matter.
C12_BetweenGap ==
    pc = "between"
        => /\ span = between(rhs, lhs)
           /\ Below(lhs, rhs) => span = SpanRange(lhs.hi, rhs.lo)
           /\ Below(rhs, lhs) => span = SpanRange(rhs.hi, lhs.lo)
           /\ (~Below(lhs, rhs) /\ ~Below(rhs, lhs)) => span = SpanNone
           /\ (Offsets(lhs) \cap Offsets(rhs)) # {} => span = SpanNone
           /\ (\/ lhs.k \in {"None", "RangeFull"}
               \/ rhs.k \in {"None", "RangeFull"}
               \/ lhs.k = rhs.k /\ lhs.k \in {"RangeFrom", "RangeTo"}) => span = SpanNone
           /\ Offsets(span) \cap (Offsets(lhs) \cup Offsets(rhs)) = {}
           /\ span # SpanNone => span.lo < span.hi

\* C12 witness: the gap between a RangeFrom and the Range below it, given
\* upper span first
C12_Witness ==
    /\ pc = "between"
    /\ lhs.k = "RangeFrom" /\ rhs.k = "Range"
    /\ span = SpanRange(rhs.hi, lhs.lo)
    /\ span.lo < span.hi

\* the cursor c advanced by n items
Advanced(c, n) == TokenStream(start(c) + n, SubSeq(c.value, n + 1, len(c)))
\* the slice of the first n items of c
Prefix(c, n) == Node("input", <<>>, SubSeq(c.value, 1, n), <<start(c)>>)

\* C13: next(item): on an empty cursor it fails Incomplete, on a cursor
\* whose first item differs from item it fails Recoverable, both with the
\* cursor unchanged; when the first item is item it returns the slice of
\* that one item, starting at the cursor's start, and advances the cursor
\* by the item's length.
C13_Next ==
    (pc = "done" /\ parser.t = "next")
        => /\ len(before) = 0 =>
                 /\ result.tag = "err" /\ control_flow(result.err) = "Incomplete"
                 /\ input = before
           /\ (len(before) > 0 /\ before.value[1] # parser.s[1]) =>
                 /\ result.tag = "err" /\ control_flow(result.err) = "Recovable"
                 /\ input = before
           /\ (len(before) > 0 /\ before.value[1] = parser.s[1]) =>
                 /\ result.tag = "ok"
                 /\ result.out = Prefix(before, 1)
                 /\ result.out.s = <<parser.s[1]>>
                 /\ input = Advanced(before, 1)

\* C13 witness: next at the end of an input it had advanced through
C13_Witness ==
    /\ pc = "done" /\ parser.t = "next"
    /\ len(before) = 0 /\ start(before) > 0
    /\ control_flow(result.err) = "Incomplete"

\* C14: next_if(f) fails Incomplete on an empty cursor and Recoverable on a
\* cursor whose first item f rejects; the cursor is unchanged in both cases.
C14_NextIfIncomplete ==
    (pc = "done" /\ parser.t = "next_if")
        => /\ len(before) = 0 =>
                 /\ result.tag = "err" /\ control_flow(result.err) = "Incomplete"
                 /\ input = before
           /\ (len(before) > 0 /\ ~InSeq(before.value[1], parser.s)) =>
                 /\ result.tag = "err" /\ control_flow(result.err) = "Recovable"
                 /\ input = before

\* kw occurs in v at offset i
OccursAt(kw, v, i) == i + Len(kw) <= Len(v) /\ SubSeq(v, i + 1, i + Len(kw)) = kw

\* C15: take_until(kw): when kw occurs in the remaining input it returns
\* the slice up to the first occurrence of kw and leaves the cursor at that
\* occurrence; when kw does not occur it fails Incomplete and consumes
\* nothing.
C15_TakeUntil ==
    (pc = "done" /\ parser.t = "take_until")
        => LET kw == parser.s
               v == before.value
           IN /\ \A i \in 0..Len(v) :
                    (OccursAt(kw, v, i) /\ \A j \in 0..(i - 1) : ~OccursAt(kw, v, j)) =>
                        /\ result.tag = "ok"
                        /\ result.out = Prefix(before, i)
                        /\ input = Advanced(before, i)
              /\ (\A i \in 0..Len(v) : ~OccursAt(kw, v, i)) =>
                    /\ result.tag = "err" /\ control_flow(result.err) = "Incomplete"
                    /\ input = before

\* C16: take_while(cond), and a token!() type, which is take_while on its
\* predicate, never fail; they return the longest prefix whose items all
\* satisfy cond, advance the cursor by its length and leave it at the first
\* item that fails cond; take_till(cond) is take_while(not cond).
C16_TakeWhileLongest ==
    /\ (pc = "done" /\ parser.t \in {"take_while", "Token"})
          => LET cond == IF parser.t = "Token" THEN Tail(parser.s) ELSE parser.s
                 slice == IF parser.t = "Token" THEN result.out.a[1] ELSE result.out
                 n == Len(slice.s)
             IN /\ result.tag = "ok"
                /\ parser.t = "Token" => result.out.t = "Token"
                /\ n <= len(before)
                /\ slice = Prefix(before, n)
                /\ \A i \in 1..n : InSeq(before.value[i], cond)
                /\ n < len(before) => ~InSeq(before.value[n + 1], cond)
                /\ input = Advanced(before, n)
    /\ (pc = "done" /\ parser.t = "take_while")
          => \A cond \in Conds :
                parser = take_till(cond) =>
                   LET n == Len(result.out.s)
                   IN /\ \A i \in 1..n : ~InSeq(before.value[i], cond)
                      /\ n < len(before) => InSeq(before.value[n + 1], cond)
                      /\ Verdict(result) = Verdict(Parse(take_while(Not(cond)), before))

\* C16 witness: take_while stopped inside the input, after a non-empty
\* prefix, on a cursor that is not at offset 0
C16_Witness ==
    /\ pc = "done" /\ parser.t = "take_while"
    /\ start(before) > 0
    /\ Len(result.out.s) > 0
    /\ Len(result.out.s) < len(before)

\* C17: keyword(kw) on a cursor whose input begins with kw succeeds,
\* consumes len(kw) items and returns a slice of span
\* [start, start + len(kw)) ("aa" on "aa": 2 items, span 0..2); on any other
\* input, a proper prefix of kw included, it fails Recoverable and leaves
\* the cursor unchanged.
C17_Keyword ==
    (pc = "done" /\ parser.t = "keyword")
        => LET kw == parser.s
               begins == /\ Len(kw) <= len(before)
                         /\ \A i \in 1..Len(kw) : before.value[i] = kw[i]
           IN /\ begins =>
                    /\ result.tag = "ok"
                    /\ result.out = Prefix(before, Len(kw))
                    /\ result.out.s = kw
                    /\ node_to_span(result.out) =
                          SpanRange(start(before), start(before) + Len(kw))
                    /\ input = Advanced(before, Len(kw))
              /\ ~begins =>
                    /\ result.tag = "err" /\ control_flow(result.err) = "Recovable"
                    /\ input = before
              /\ (kw = <<"a", "a">> /\ before = TokenStream_from(<<"a", "a">>)) =>
                    /\ result.tag = "ok"
                    /\ node_to_span(result.out) = SpanRange(0, 2)
                    /\ input = TokenStream(2, <<>>)

\* C17 witness: the input is a non-empty proper prefix of the keyword
C17_Witness ==
    /\ pc = "done" /\ parser.t = "keyword"
    /\ len(before) > 0 /\ len(before) < Len(parser.s)
    /\ before.value = SubSeq(parser.s, 1, len(before))
    /\ result.tag = "err"

\* C18: for a cursor c with start s and length n and at <= n, split_to(at)
\* returns the prefix (start s, length at) and leaves c with start s + at
\* and length n - at; split_off(at) returns the suffix (start s + at,
\* length n - at) and leaves c with start s and length at.  The two parts
\* put together are the original content, end = start + len holds for
\* both, and a clone of c taken before the call is unchanged.
C18_Split ==
    [][(pc = "cursor" /\ pc' = "split")
          => LET c == input
                 s == start(input)
                 n == len(input)
                 at == parser'.n[1]
                 part == TokenStream(result'.out.n[1], result'.out.s)
                 rest == input'
             IN /\ at <= n
                /\ parser'.t = "split_to" =>
                      /\ start(part) = s /\ len(part) = at
                      /\ start(rest) = s + at /\ len(rest) = n - at
                      /\ part.value \o rest.value = c.value
                /\ parser'.t = "split_off" =>
                      /\ start(part) = s + at /\ len(part) = n - at
                      /\ start(rest) = s /\ len(rest) = at
                      /\ rest.value \o part.value = c.value
                /\ end(part) = start(part) + len(part)
                /\ end(rest) = start(rest) + len(rest)
                /\ before' = c
                /\ start(before') = s /\ len(before') = n]_vars

\* C18 witness: split_off inside a cursor that is not at offset 0
C18_Witness ==
    /\ pc = "split" /\ parser.t = "split_off"
    /\ start(before) > 0
    /\ parser.n[1] > 0 /\ parser.n[1] < len(before)
    /\ len(input) = parser.n[1]

\* C19: after any sequence of successful parses from a cursor that started
\* at offset 0, the slices held by the returned nodes are contiguous and in
\* order, the cursor's start is the end of the last slice, and the slices
\* put together are exactly the prefix of the input up to the cursor: no
\* item is dropped and none is held by two nodes.
C19_Contiguous ==
    (pc \in {"ready", "done"} /\ clean)
        => /\ contiguous
           /\ start(input) = Len(consumed)
           /\ consumed = SubSeq(source, 1, start(input))
           /\ input.value = SubSeq(source, start(input) + 1, Len(source))

\* C20: a derived enum tries its variants in declaration order, each as an
\* ok()-wrapped attempt from the position the cursor had when the enum's
\* parse was called.  It returns the first variant that succeeds, with that
\* variant's value and cursor, and the calls it made are exactly those of
\* the variants up to and including that one: no later variant is tried.
\* It fails with the Recoverable Kind::Syntax error carrying the enum's name
\* and the span of the cursor at its pre-attempt position, with the cursor
\* unconsumed, exactly when every variant fails non-fatally.  (A variant
\* that fails fatally ends the parse with that variant's own error.)
Attempt(i) == Parse(parser.a[i], before)

Settled(i) ==
    Attempt(i).tag = "ok" \/ control_flow(Attempt(i).err) = "Fatal"

RECURSIVE Attempts(_)
Attempts(k) == IF k = 0 THEN <<>> ELSE Attempts(k - 1) \o Attempt(k).log

C20_EnumOrder ==
    (pc = "done" /\ parser.t = "Enum")
        => LET n == Len(parser.a)
               settled == {i \in 1..n : Settled(i)}
               first == CHOOSE i \in settled : \A j \in settled : i <= j
           IN /\ settled = {} =>
                    /\ result.tag = "err"
                    /\ result.err = Kind("Syntax", parser.s[1], "Recovable",
                                         SpanRange(start(before), end(before)))
                    /\ input = before
                    /\ result.log = Attempts(n)
              /\ (settled # {} /\ Attempt(first).tag = "ok") =>
                    /\ result.tag = "ok"
                    /\ result.out = Attempt(first).out
                    /\ input = Attempt(first).cur
                    /\ result.log = Attempts(first)
              /\ (settled # {} /\ Attempt(first).tag = "err") =>
                    /\ result.tag = "err"
                    /\ result.err = Attempt(first).err
                    /\ result.log = Attempts(first)
              /\ (result.tag = "err" /\ result.err.kind = "Syntax"
                    /\ result.err.name = parser.s[1]
                    /\ control_flow(result.err) = "Recovable")
                    => \A i \in 1..n : Attempt(i).tag = "err" /\ ~Settled(i)

\* C20 witness: away from offset 0, the first variant fails after consuming
\* input and a later variant, tried from the same position, succeeds
C20_Witness ==
    /\ pc = "done" /\ parser.t = "Enum"
    /\ start(before) > 0
    /\ Len(parser.a) >= 2
    /\ Attempt(1).tag = "err" /\ Attempt(1).cur # before
    /\ result.tag = "ok"
    /\ \E i \in 2..Len(parser.a) : result.out = Attempt(i).out /\ input = Attempt(i).cur
    /\ input # before

\* every variant fails non-fatally, one of them after consuming input
C20_WitnessFail ==
    /\ pc = "done" /\ parser.t = "Enum"
    /\ Len(parser.a) >= 2
    /\ \E i \in 1..Len(parser.a) : Attempt(i).cur # before
    /\ result.tag = "err" /\ result.err.kind = "Syntax"
    /\ input = before

\* a variant fails fatally
C20_WitnessFatal ==
    /\ pc = "done" /\ parser.t = "Enum"
    /\ result.tag = "err" /\ control_flow(result.err) = "Fatal"

\* C21: a derived struct parses its fields in declaration order, each from
\* the cursor the previous field left.  The first field that fails ends the
\* parse with that field's error, and the calls made are those of the fields
\* up to and including it: no later field is attempted.  On success the
\* struct holds every field's value, the cursor is where the last field left
\* it, and the struct's span is the left-to-right union of the fields' spans
\* starting from Span::None, which is Range(start of the first field .. end
\* of the last field) when every field's span is a bounded range.
RECURSIVE Field(_)
Field(i) ==
    Parse(parser.a[i], IF i = 1 THEN before ELSE Field(i - 1).cur)

RECURSIVE FieldLogs(_)
FieldLogs(k) == IF k = 0 THEN <<>> ELSE FieldLogs(k - 1) \o Field(k).log

RECURSIVE FoldUnion(_, _)
FoldUnion(spans, k) ==
    IF k = 0 THEN SpanNone ELSE union(FoldUnion(spans, k - 1), spans[k])

RECURSIVE FirstFailing(_, _)
FirstFailing(i, n) ==
    IF i > n THEN 0
    ELSE IF Field(i).tag # "ok" THEN i ELSE FirstFailing(i + 1, n)

C21_StructFields ==
    (pc = "done" /\ parser.t = "Struct")
        => LET n == Len(parser.a)
               f == FirstFailing(1, n)
               spans == [i \in 1..n |-> node_to_span(Field(i).out)]
           IN /\ f > 0 =>
                    /\ result.tag = "err"
                    /\ result.err = Field(f).err
                    /\ result.log = FieldLogs(f)
              /\ f = 0 =>
                    /\ result.tag = "ok"
                    /\ Len(result.out.a) = n
                    /\ \A i \in 1..n : result.out.a[i] = Field(i).out
                    /\ result.log = FieldLogs(n)
                    /\ input = (IF n = 0 THEN before ELSE Field(n).cur)
                    /\ node_to_span(result.out) = FoldUnion(spans, n)
                    /\ (n > 0 /\ \A i \in 1..n : spans[i].k = "Range") =>
                          node_to_span(result.out) = SpanRange(spans[1].lo, spans[n].hi)

\* C21 witness: away from offset 0, a struct of two fields that both
\* consume input succeeds
C21_Witness ==
    /\ pc = "done" /\ parser.t = "Struct" /\ result.tag = "ok"
    /\ start(before) > 0
    /\ Len(parser.a) = 2
    /\ Field(1).cur # before /\ Field(2).cur # Field(1).cur
    /\ node_to_span(result.out) = SpanRange(start(before), start(input))

\* the second field fails after the first has consumed input
C21_WitnessFail ==
    /\ pc = "done" /\ parser.t = "Struct" /\ result.tag = "err"
    /\ Len(parser.a) = 2
    /\ Field(1).tag = "ok" /\ Field(1).cur # before

\* C22: derive_tuple_syntax!(16) emits a Syntax impl for every arity n with
\* 2 <= n <= 16, the arity 16 included; and a tuple's parse parses its
\* elements in order, each from the cursor the previous one left, and stops
\* at the first element that fails, with that element's error.
Arities == {result.out.n[k] : k \in 1..Len(result.out.n)}

C22_TupleArities ==
    /\ (pc = "derived" /\ parser.n[1] = 16) => Arities = 2..16
    /\ pc = "tuple" =>
          LET n == Len(parser.a)
              f == FirstFailing(1, n)
          IN /\ f > 0 =>
                   /\ result.tag = "err"
                   /\ result.err = Field(f).err
                   /\ result.log = FieldLogs(f)
             /\ f = 0 =>
                   /\ result.tag = "ok"
                   /\ Len(result.out.a) = n
                   /\ \A i \in 1..n : result.out.a[i] = Field(i).out
                   /\ input = Field(n).cur

\* what the expansion does emit: the arities 2 .. 15
C22_AritiesBelowLen ==
    (pc = "derived" /\ parser.n[1] >= 3) => Arities = 2..(parser.n[1] - 1)

\* a tuple of the largest arity that has an impl is parsed
C22_Witness ==
    /\ pc = "tuple" /\ Len(parser.a) = 15 /\ result.tag = "ok"
    /\ input # before

\* C23: Repeat::parse on a well-formed quantifier.  "{n}" gives Repeat with
\* value n, "{n,}" gives From with value n, "{n,m}" with n <= m gives Range
\* with n and m.  In each case the node's input slice is the text from the
\* '{' through the '}', at the offset of the '{'; the digit slices sit at
\* their offsets inside it; the cursor ends immediately after the '}'; and
\* every Range that is returned has n <= m.
IsDigit(item) == item \in {"0", "1", "2", "3", "4", "5", "6", "7", "8", "9"}

\* the number of digits of v from index i on
RECURSIVE DigitRun(_, _)
DigitRun(v, i) ==
    IF i <= Len(v) /\ IsDigit(v[i]) THEN 1 + DigitRun(v, i + 1) ELSE 0

At(v, i) == IF i >= 1 /\ i <= Len(v) THEN v[i] ELSE ""

\* the shape of the quantifier an input begins with: its variant, the
\* lengths of its numbers and its whole length; variant "" when the input
\* does not begin with a well-formed quantifier
Quantifier(v) ==
    LET d1 == DigitRun(v, 2)
        sep == 2 + d1
        d2 == DigitRun(v, sep + 1)
    IN CASE At(v, 1) # "{" \/ d1 = 0 -> [variant |-> "", d1 |-> 0, d2 |-> 0, length |-> 0]
         [] At(v, sep) = "}" -> [variant |-> "Repeat", d1 |-> d1, d2 |-> 0, length |-> sep]
         [] At(v, sep) = "," /\ At(v, sep + 1) = "}" ->
              [variant |-> "From", d1 |-> d1, d2 |-> 0, length |-> sep + 1]
         [] At(v, sep) = "," /\ d2 > 0 /\ At(v, sep + 1 + d2) = "}" ->
              [variant |-> "Range", d1 |-> d1, d2 |-> d2, length |-> sep + 1 + d2]
         [] OTHER -> [variant |-> "", d1 |-> 0, d2 |-> 0, length |-> 0]

C23_WitnessRange ==
    /\ pc = "done" /\ parser.t = "Repeat" /\ result.tag = "ok"
    /\ result.out.s = <<"Range">> /\ result.out.a[1].n[1] < result.out.a[2].n[1]

\* C24: Repeat::parse commits at the opening brace.  When the input does
\* not begin with '{' the failure keeps the severity next() gave it
\* (Recoverable, or Incomplete at the end of input) and the cursor is not
\* moved.  Once '{' has been consumed every failure is Fatal: missing or
\* malformed digits, an unexpected character, a missing '}'.  A range
\* "{n,m}" with n > m fails Fatal with the span of the whole token, from the
\* '{' through the '}'.
C24_RepeatCommits ==
    (pc = "done" /\ parser.t = "Repeat")
        => LET v == before.value
               s == start(before)
               q == Quantifier(v)
               n == parse_u64(SubSeq(v, 2, 1 + q.d1))
               m == parse_u64(SubSeq(v, 3 + q.d1, 2 + q.d1 + q.d2))
           IN /\ At(v, 1) # "{" =>
                    /\ result.tag = "err"
                    /\ result.err.kind = "Compile" /\ result.err.name = "Repeat"
                    /\ control_flow(result.err)
                          = (IF v = <<>> THEN "Incomplete" ELSE "Recovable")
                    /\ input = before
              /\ (At(v, 1) = "{" /\ q.variant = "") =>
                    /\ result.tag = "err"
                    /\ control_flow(result.err) = "Fatal"
              /\ (At(v, 1) = "{" /\ result.tag = "err") =>
                    /\ result.err.kind = "Compile" /\ result.err.name = "Repeat"
                    /\ control_flow(result.err) = "Fatal"
              /\ (q.variant = "Range" /\ n > m) =>
                    /\ result.tag = "err"
                    /\ result.err = Kind("Compile", "Repeat", "Fatal", SpanRange(s, s + q.length))

\* C24 witness: away from offset 0, "{12,2}" fails Fatal over its six items
C24_Witness ==
    /\ pc = "done" /\ parser.t = "Repeat" /\ result.tag = "err"
    /\ start(before) = 2
    /\ before.value = <<"{", "1", "2", ",", "2", "}">>
    /\ result.err = Kind("Compile", "Repeat", "Fatal", SpanRange(2, 8))

\* the digits are missing after the brace
C24_WitnessDigits ==
    /\ pc = "done" /\ parser.t = "Repeat" /\ result.tag = "err"
    /\ before.value = <<"{", " ", "1", "}">>
    /\ control_flow(result.err) = "Fatal"
    /\ result.err.span = SpanRange(start(before) + 1, start(before) + 1)

\* the closing brace is missing at the end of input
C24_WitnessEnd ==
    /\ pc = "done" /\ parser.t = "Repeat" /\ result.tag = "err"
    /\ before.value = <<"{", "1", ",">>
    /\ control_flow(result.err) = "Fatal"

\* C25: Digits::parse on an input that is empty or whose first character is
\* not an ASCII digit fails Recoverable with the zero-width span s..s, s the
\* cursor's start offset, and consumes nothing.  On an input that starts
\* with digits it returns the longest digit prefix, which is not empty, and
\* leaves the cursor at the first character that is not a digit.
C25_Digits ==
    (pc = "done" /\ parser.t = "Digits")
        => LET v == before.value
               s == start(before)
               d == DigitRun(v, 1)
           IN /\ d = 0 =>
                    /\ result.tag = "err"
                    /\ result.err = Kind("Pattern", "Digits", "Recovable", SpanRange(s, s))
                    /\ input = before
              /\ d > 0 =>
                    /\ result.tag = "ok"
                    /\ result.out = Node("Digits", <<Slice(TokenStream(s, SubSeq(v, 1, d)))>>,
                                         <<>>, <<>>)
                    /\ node_to_span(result.out) = SpanRange(s, s + d)
                    /\ input = TokenStream(s + d, SubSeq(v, d + 1, Len(v)))
                    /\ (len(input) > 0 => ~IsDigit(input.value[1]))

\* C25 witness: away from offset 0, digits are required but the input
\* starts with another character and has digits further on
C25_Witness ==
    /\ pc = "done" /\ parser.t = "Digits" /\ result.tag = "err"
    /\ start(before) > 0
    /\ len(before) > 1 /\ ~IsDigit(before.value[1]) /\ IsDigit(before.value[2])
    /\ result.err.span = SpanRange(start(before), start(before))

\* a digit prefix followed by other input
C25_WitnessPrefix ==
    /\ pc = "done" /\ parser.t = "Digits" /\ result.tag = "ok"
    /\ Len(result.out.a[1].s) = 2 /\ len(input) > 0

\* C26: when no alternative fails Fatal and every alternative fails, the
\* caller gets the error of the last alternative attempted, unchanged:
\* p.or(q) returns q's error, a chain p1.or(p2)...or(pn) returns pn's error,
\* and Or<F, S> returns S's error.
RECURSIVE Alternatives(_)
Alternatives(p) ==
    IF p.t = "or" THEN Alternatives(p.a[1]) \o Alternatives(p.a[2]) ELSE <<p>>

C26_LastError ==
    (pc = "done" /\ parser.t \in {"or", "Or"})
        => LET alts == IF parser.t = "or" THEN Alternatives(parser) ELSE parser.a
               rs == [i \in 1..Len(alts) |-> Parse(alts[i], before)]
           IN (\A i \in 1..Len(alts) : NonFatal(rs[i]))
                 => /\ result.tag = "err"
                    /\ result.err = rs[Len(alts)].err

\* C26 witness: a chain of three alternatives that fail with three
\* different errors, away from offset 0
C26_Witness ==
    /\ pc = "done" /\ parser.t = "or" /\ result.tag = "err"
    /\ start(before) > 0
    /\ LET alts == Alternatives(parser)
       IN /\ Len(alts) = 3
          /\ \A i \in 1..3 : NonFatal(Parse(alts[i], before))
          /\ Parse(alts[1], before).err # Parse(alts[3], before).err
          /\ Parse(alts[2], before).err # Parse(alts[3], before).err
          /\ Parse(alts[1], before).err # Parse(alts[2], before).err

\* Or<F, S> whose two alternatives fail with different errors
C26_WitnessSyntaxOr ==
    /\ pc = "done" /\ parser.t = "Or" /\ result.tag = "err"
    /\ NonFatal(Parse(parser.a[1], before)) /\ NonFatal(Parse(parser.a[2], before))
    /\ Parse(parser.a[1], before).err # Parse(parser.a[2], before).err

\* C27: Chars::parse advances the cursor by exactly the length of the node
\* it returns, whichever result it is (an Escape, a Range of 3 characters, a
\* Sequnce shortened by one because a '-' follows it, a Sequnce not followed
\* by '-'): after a success the cursor's start offset is the end of the
\* returned node's span, and the node holds the items the cursor has passed.
CharsSlice ==
    LET slice == IF result.out.s[1] = "Escape" THEN result.out.a[1].a[1] ELSE result.out.a[1]
    IN TokenStream(slice.n[1], slice.s)

C27_CharsAdvance ==
    (pc = "done" /\ parser.t = "Chars" /\ result.tag = "ok")
        => /\ start(input) = start(before) + len(CharsSlice)
           /\ node_to_span(result.out) = SpanRange(start(before), start(input))
           /\ CharsSlice.value \o input.value = before.value
           /\ result.out.s[1] = "Range" => len(CharsSlice) = 3

\* a Sequnce that is followed by '-' was shortened by one
FollowedByDash ==
    /\ len(input) > 1
    /\ input.value[2] = "-"

\* the same for the results other than a Sequnce not followed by '-'
C27_CharsAdvanceBeforeDash ==
    (pc = "done" /\ parser.t = "Chars" /\ result.tag = "ok"
        /\ (result.out.s[1] = "Sequnce" => FollowedByDash))
        => /\ start(input) = start(before) + len(CharsSlice)
           /\ node_to_span(result.out) = SpanRange(start(before), start(input))
           /\ CharsSlice.value \o input.value = before.value
           /\ result.out.s[1] = "Range" => len(CharsSlice) = 3

\* each of the four results occurs
C27_WitnessEscape ==
    pc = "done" /\ parser.t = "Chars" /\ result.tag = "ok" /\ result.out.s[1] = "Escape"

C27_WitnessRange ==
    pc = "done" /\ parser.t = "Chars" /\ result.tag = "ok" /\ result.out.s[1] = "Range"

C27_WitnessShortened ==
    /\ pc = "done" /\ parser.t = "Chars" /\ result.tag = "ok"
    /\ result.out.s[1] = "Sequnce" /\ FollowedByDash /\ input # before

C27_WitnessSequnce ==
    /\ pc = "done" /\ parser.t = "Chars" /\ result.tag = "ok"
    /\ result.out.s[1] = "Sequnce" /\ ~FollowedByDash
    /\ len(CharsSlice) > 0 /\ input = before

\* C28: Vec<T>::parse and Punctuated<T, P>::parse return on every finite
\* input for every element parser, those that can succeed without consuming
\* input included (a token built on take_while, Option<T>, PhantomData,
\* Chars returning a sequence), and so does CharClass::parse: no call is
\* left looping.
C28_Terminates == pc # "hung"

\* the loops do return when every successful element consumes input
C28_TerminatesWhenConsuming ==
    (pc = "hung" /\ parser.t = "Vec")
        => LET r == Parse(parser.a[1], result.cur)
           IN r.tag = "ok" /\ r.cur = result.cur

\* CharClass::parse on "[a2]" never returns
C28_WitnessCharClass ==
    /\ pc = "hung" /\ parser.t = "CharClass"
    /\ before.value = <<"[", "a", "2", "]">>

\* a Vec whose elements consume returns
C28_WitnessReturns ==
    /\ pc = "done" /\ parser.t = "Vec" /\ parser.a[1] = next("2")
    /\ result.tag = "ok" /\ Len(result.out.a) = 2

\* C29: the bounds of the Limits family.  With len the length of T's span
\* (0 for None, end - start for Range, end for RangeTo; RangeFrom and
\* RangeFull are rejected), LimitsTo<T, N> accepts exactly when len <= N,
\* LimitsFrom<T, LOWER> exactly when len >= LOWER, and
\* Limits<T, LOWER, HIGHER> exactly when LOWER <= len < HIGHER: its upper
\* bound is exclusive and Limits<T, L, L> rejects every input.  What is
\* accepted is T's value in the wrapper.
C29_LimitsBounds ==
    (pc = "done" /\ parser.t \in {"Limits", "LimitsTo", "LimitsFrom"}
        /\ Parse(parser.a[1], before).tag = "ok")
        => LET t == Parse(parser.a[1], before).out
               sp == node_to_span(t)
               measured == sp.k \in {"None", "Range", "RangeTo"}
               length == CASE sp.k = "Range" -> sp.hi - sp.lo
                           [] sp.k = "RangeTo" -> sp.hi
                           [] OTHER -> 0
               accepts == CASE parser.t = "LimitsTo" -> length <= parser.n[1]
                            [] parser.t = "LimitsFrom" -> length >= parser.n[1]
                            [] OTHER -> parser.n[1] <= length /\ length < parser.n[2]
           IN /\ result.tag = "ok" <=> (measured /\ accepts)
              /\ result.tag = "ok" => result.out = Node(parser.t, <<t>>, <<>>, <<>>)
              /\ (parser.t = "Limits" /\ parser.n[1] = parser.n[2]) => result.tag = "err"

\* C29 witness: away from offset 0, Limits rejects a T whose length is
\* exactly HIGHER, with LOWER below it
C29_Witness ==
    /\ pc = "done" /\ parser.t = "Limits" /\ result.tag = "err"
    /\ start(before) > 0
    /\ Parse(parser.a[1], before).tag = "ok"
    /\ node_to_span(Parse(parser.a[1], before).out).k = "Range"
    /\ parser.n[1] < parser.n[2]
    /\ span_len(node_to_span(Parse(parser.a[1], before).out)) = parser.n[2]

\* Limits accepts a length just below HIGHER, and a RangeTo span is measured
C29_WitnessAccepts ==
    /\ pc = "done" /\ parser.t = "Limits" /\ result.tag = "ok"
    /\ span_len(node_to_span(result.out)) = parser.n[2] - 1
    /\ parser.n[2] = MaxLimit

C29_WitnessRangeTo ==
    /\ pc = "done" /\ parser.t = "LimitsFrom" /\ result.tag = "ok"
    /\ node_to_span(result.out).k = "RangeTo" /\ parser.n[1] = MaxLimit

\* C30: a failed parse leaks no consumed state.  When Limits, LimitsTo or
\* LimitsFrom rejects a T that parsed, the caller's cursor is at the position
\* it had before T was parsed, the position the error's span reports.
C30_LimitsNoLeak ==
    (pc = "done" /\ parser.t \in {"Limits", "LimitsTo", "LimitsFrom"}
        /\ Parse(parser.a[1], before).tag = "ok"
        /\ result.tag = "err")
        => /\ input = before
           /\ error_span(result.err) = to_span(input)

\* the cursor a rejection leaves: where T ended
C30_LimitsLeavesAfterT ==
    (pc = "done" /\ parser.t \in {"Limits", "LimitsTo", "LimitsFrom"}
        /\ Parse(parser.a[1], before).tag = "ok"
        /\ result.tag = "err")
        => /\ input = Parse(parser.a[1], before).cur
           /\ error_span(result.err) = to_span(before)

\* a rejection after T has consumed input
C30_Witness ==
    /\ pc = "done" /\ parser.t = "LimitsTo" /\ result.tag = "err"
    /\ Parse(parser.a[1], before).tag = "ok"
    /\ Parse(parser.a[1], before).cur # before

====
